---- MODULE Spec2Model ----
(***************************************************************************)
(* Courseware generation pipeline (backend/src/services/gemini.ts).        *)
(*                                                                         *)
(* Strings are TLA+ strings; the Chinese literals of the source are        *)
(* written as ASCII glosses, one distinct gloss per distinct literal.      *)
(* An optional value (a field that may be missing, undefined or null) is   *)
(* a sequence of length at most one: None is <<>>, Some(x) is <<x>>.       *)
(* randomUUID() is modelled by a counter: every call returns a value that  *)
(* no earlier call returned.                                               *)
(***************************************************************************)
EXTENDS Integers, Sequences, FiniteSets, TLC

\* ------------------------------------------------------------ bounds
MaxSections == 2
MaxTypes == 2
MaxClock == 2000
TickMs == 500


MAX_RETRY_OneMore == 2 + 1

\* ------------------------------------------------- program constants
MAX_RETRY == 2
PLACEHOLDER_IMAGE_BASE == "https://placehold.co/800x600"
DELAY_MS == 1000

\* ------------------------------------------------- optional values
None == <<>>
Some(x) == <<x>>

\* a ?? d
Coalesce(o, d) == IF o = None THEN d ELSE o[1]

\* a || d on strings: the empty string is falsy as well
\* A default that is taken for a missing value only.
OrDefault_OnlyMissing(o, d) == IF o = None THEN d ELSE o[1]

OrDefault(o, d) == IF o = None \/ o[1] = "" THEN d ELSE o[1]

\* --------------------------------------------------------- the brief
InteractionTypeValues == {"single", "multi", "truefalse", "open"}

\* An element of interactionTypes: one of the four values, or null (the HTTP
\* layer checks only that interactionTypes is an array).
TypeElems == {Some(t) : t \in InteractionTypeValues} \cup {None}

TypeLists == UNION {[1..n -> TypeElems] : n \in 0..MaxTypes}

Topics == {"Photosynthesis"}

Briefs ==
  [topic : Topics,
   audience : {"Grade 5"},
   interactionTypes : {None} \cup {Some(l) : l \in TypeLists},
   tone : {None},
   imageStyle : {None},
   objectives : {None}]

\* ------------------------------------------------ provider output
\* The text of a provider response is a sequence of tokens: prose, white
\* space, braces, fence marks, and the body of a JSON object.
Tok(c) == [k |-> c]
X == Tok("x")
WS == Tok(" ")
LB == Tok("{")
RB == Tok("}")
FOPEN == Tok("fence-json")
FCLOSE == Tok("fence")

Undefined == [t |-> "undefined"]
NullItem == [t |-> "null"]

FullItem ==
  [t |-> "obj", title |-> Some("Light"), summary |-> Some("Plants use light"),
   interactionHint |-> Some("multi"), assetsHint |-> Some("a leaf in the sun")]

BareItem ==
  [t |-> "obj", title |-> None, summary |-> None,
   interactionHint |-> None, assetsHint |-> None]

BlankItem ==
  [t |-> "obj", title |-> Some(""), summary |-> Some(""),
   interactionHint |-> None, assetsHint |-> None]

ItemShapes == {FullItem, BareItem, BlankItem}

ItemLists == UNION {[1..n -> ItemShapes] : n \in 1..MaxSections}

Arr(a) == [t |-> "arr", a |-> a]

\* The values the "sections" key of the parsed object can have: missing, an
\* array of items, an array holding null, a string, a number.
SectionsValues ==
  {Undefined, Arr(<<>>), Arr(<<NullItem>>), Arr(<<BareItem, NullItem>>),
   [t |-> "str", len |-> 0], [t |-> "str", len |-> 3], [t |-> "num"]}
  \cup {Arr(l) : l \in ItemLists}

TitleValues == {None, Some(""), Some("Course")}

Body(title, secs) == [k |-> "body", title |-> title, sections |-> secs]

Bodies == {Body(t, s) : t \in TitleValues, s \in SectionsValues}

EmptyObject == Body(None, Undefined)

\* Bodies that are also sent inside a fence, cut short, or among stray braces.
WrappedBodies ==
  {Body(Some("Course"), Arr(<<FullItem>>)), Body(None, Arr(<<BareItem, BlankItem>>)),
   Body(Some(""), Arr(<<NullItem>>)), Body(None, Arr(<<>>))}

ProviderTexts ==
  {<<>>, <<WS>>, <<X>>, <<LB, RB>>, <<RB, LB>>, <<LB, X, RB, LB, X, RB>>}
  \cup {<<LB, b, RB>> : b \in Bodies}
  \cup {<<WS, LB, b>> : b \in WrappedBodies}
  \cup {<<X, FOPEN, WS, LB, b, RB, WS, FCLOSE, X>> : b \in WrappedBodies}
  \cup {<<LB, X, FOPEN, LB, b, RB, FCLOSE, RB>> : b \in WrappedBodies}
  \cup {<<X, FOPEN, LB, b, RB>> : b \in WrappedBodies}

\* A provider call either throws or returns a text.
ProviderResponses ==
  {[kind |-> "throw"]} \cup {[kind |-> "text", text |-> t] : t \in ProviderTexts}

\* ------------------------------------------------------ extractJson
TokenKinds == {"x", " ", "{", "}", "fence-json", "fence", "body"}

\* indexOf and lastIndexOf of a token whose kind is in K, counted from 1;
\* 0 when there is none.
FirstIndex(s, K) ==
  IF \E i \in 1..Len(s) : s[i].k \in K
    THEN CHOOSE i \in 1..Len(s) : s[i].k \in K /\ \A j \in 1..(i - 1) : s[j].k \notin K
    ELSE 0

LastIndex(s, K) ==
  IF \E i \in 1..Len(s) : s[i].k \in K
    THEN CHOOSE i \in 1..Len(s) : s[i].k \in K /\ \A j \in (i + 1)..Len(s) : s[j].k \notin K
    ELSE 0

FenceOpenKinds == {"fence-json"}
FenceMarkKinds == {"fence-json", "fence"}
NonSpaceKinds == TokenKinds \ {" "}
NotWS(tk) == tk.k # " "

\* String.prototype.trim
Trim(s) ==
  LET a == FirstIndex(s, NonSpaceKinds)
      b == LastIndex(s, NonSpaceKinds)
  IN IF a = 0 THEN <<>> ELSE SubSeq(s, a, b)

\* An extractJson that does not look for a fence.
FenceCandidate_WholeText(input) == input

\* The fence match of extractJson (three backquotes and the word json, white
\* space, a lazy capture, three backquotes): the text between the first
\* opening fence and the first fence mark after it, if there is one. The
\* opening mark begins with the closing mark, so it closes a fence too.
FenceCandidate(input) ==
  LET f == FirstIndex(input, FenceOpenKinds)
      rest == SubSeq(input, f + 1, Len(input))
      c == FirstIndex(rest, FenceMarkKinds)
  IN IF f = 0 \/ c = 0 THEN input ELSE SubSeq(rest, 1, c - 1)

\* JSON.parse of a slice: an object is a "{", an optional body and a "}",
\* with white space allowed between them; anything else is a syntax error.
JsonParse(slice) ==
  LET core == SelectSeq(slice, NotWS)
  IN IF core = <<LB, RB>> THEN Some(EmptyObject)
     ELSE IF Len(core) = 3 /\ core[1] = LB /\ core[3] = RB /\ core[2].k = "body"
       THEN Some(core[2])
       ELSE None

extractJson(input) ==
  IF input = <<>> THEN None
  ELSE LET candidate == FenceCandidate(input)
           firstBraceIndex == FirstIndex(candidate, {"{"})
           lastBraceIndex == LastIndex(candidate, {"}"})
       IN IF firstBraceIndex = 0 \/ lastBraceIndex = 0 THEN None
          ELSE JsonParse(SubSeq(candidate, firstBraceIndex, lastBraceIndex))

\* generateTextWithGemini: a rejected call is caught and gives null, an empty
\* text gives null, any other text is trimmed.
generateTextWithGemini(resp) ==
  IF resp.kind = "throw" THEN None
  ELSE IF resp.text = <<>> THEN None
  ELSE Some(Trim(resp.text))


\* A hint that does not rotate.
pickInteractionHint_First(interactionTypes, index) ==
  IF Len(interactionTypes) = 0 THEN None ELSE interactionTypes[1]

\* ------------------------------------------------- outline building
pickInteractionHint(interactionTypes, index) ==
  IF Len(interactionTypes) = 0 THEN None
  ELSE interactionTypes[(index % Len(interactionTypes)) + 1]

DefaultTitle(request) == request.topic \o " interactive courseware"

buildDefaultOutlineSections(topic) ==
  LET safeTopic == IF topic = "" THEN "this lesson" ELSE topic
  IN << [title |-> "Part 1: Introduction",
         summary |-> "Introduce the background and importance of [" \o safeTopic \o "].",
         assetsHint |-> "Show a lead-in picture related to [" \o safeTopic \o "]."],
        [title |-> "Part 2: Core Content",
         summary |-> "Explain the key points of [" \o safeTopic \o "] with examples.",
         assetsHint |-> "Prepare a diagram or case illustration of the core concept."],
        [title |-> "Part 3: Summary and Extension",
         summary |-> "Summarise [" \o safeTopic \o "] and suggest further practice.",
         assetsHint |-> "Use a concept map or mind map picture to aid memory."] >>

\* The fallback of generateOutline: the section ids are drawn first, the outline
\* id last. base is the last id handed out so far.
FallbackOutline(request, base) ==
  LET interactionTypes == Coalesce(request.interactionTypes, <<>>)
      defs == buildDefaultOutlineSections(request.topic)
  IN [id |-> base + Len(defs) + 1,
      title |-> DefaultTitle(request),
      sections |->
        [i \in 1..Len(defs) |->
          [id |-> base + i,
           title |-> defs[i].title,
           summary |-> defs[i].summary,
           assetsHint |-> defs[i].assetsHint,
           interactionHint |-> pickInteractionHint(interactionTypes, i - 1)]]]

\* An outline whose hints are all taken from the brief.
AcceptedOutline_BriefHint(request, parsed, base) ==
  LET interactionTypes == Coalesce(request.interactionTypes, <<>>)
      items == parsed.sections.a
  IN [id |-> base + 1,
      title |-> Coalesce(parsed.title, DefaultTitle(request)),
      sections |->
        [i \in 1..Len(items) |->
          [id |-> base + 1 + i,
           title |-> OrDefault(items[i].title, "Section " \o ToString(i)),
           summary |-> OrDefault(items[i].summary, "Please add a summary for this section."),
           interactionHint |-> pickInteractionHint(interactionTypes, i - 1),
           assetsHint |->
             Coalesce(items[i].assetsHint,
                      "Please prepare an illustration related to ["
                        \o OrDefault(items[i].title, request.topic) \o "].")]]]

\* The outline built from an accepted provider object: the outline id is
\* drawn first, then one id per section in order.
AcceptedOutline(request, parsed, base) ==
  LET interactionTypes == Coalesce(request.interactionTypes, <<>>)
      items == parsed.sections.a
  IN [id |-> base + 1,
      title |-> Coalesce(parsed.title, DefaultTitle(request)),
      sections |->
        [i \in 1..Len(items) |->
          [id |-> base + 1 + i,
           title |-> OrDefault(items[i].title, "Section " \o ToString(i)),
           summary |-> OrDefault(items[i].summary, "Please add a summary for this section."),
           interactionHint |->
             IF items[i].interactionHint # None THEN items[i].interactionHint
             ELSE pickInteractionHint(interactionTypes, i - 1),
           assetsHint |->
             Coalesce(items[i].assetsHint,
                      "Please prepare an illustration related to ["
                        \o OrDefault(items[i].title, request.topic) \o "].")]]]

\* !parsed?.sections || parsed.sections.length === 0
NoSections(parsedOpt) ==
  \/ parsedOpt = None
  \/ parsedOpt[1].sections.t = "undefined"
  \/ parsedOpt[1].sections.t = "str" /\ parsedOpt[1].sections.len = 0
  \/ parsedOpt[1].sections.t = "arr" /\ Len(parsedOpt[1].sections.a) = 0

\* parsed.sections.map(...) raises a TypeError when sections is no array and
\* when an element is null (section.title is read of it).
MapThrows(secs) ==
  \/ secs.t # "arr"
  \/ \E i \in 1..Len(secs.a) : secs.a[i].t = "null"

\* The body of the try block of one attempt (lines 130-155).
TryAttempt(request, resp, base) ==
  LET rawText == generateTextWithGemini(resp)
      parsed == IF rawText = None THEN None ELSE extractJson(rawText[1])
  IN IF rawText = None \/ rawText[1] = <<>> THEN [kind |-> "continue"]
     ELSE IF NoSections(parsed) THEN [kind |-> "continue"]
     ELSE IF MapThrows(parsed[1].sections) THEN [kind |-> "throw"]
     ELSE [kind |-> "accept", outline |-> AcceptedOutline(request, parsed[1], base)]


\* A catch block that lets the error go on to the caller.
OutlineCatch_Rethrow(r) == r

\* The catch block of the attempt (lines 156-159): the error is logged and
\* the loop goes on.
OutlineCatch(r) == IF r.kind = "throw" THEN [kind |-> "continue"] ELSE r

\* ------------------------------------------------ courseware building
buildImagePrompt(request, section) ==
  section.assetsHint \o " | " \o Coalesce(request.imageStyle, "flat illustration, bright colors")


\* A slide number that starts at 0.
Placeholder_ZeroBased(index) == PLACEHOLDER_IMAGE_BASE \o "?text=Slide+" \o ToString(index)

Placeholder(index) == PLACEHOLDER_IMAGE_BASE \o "?text=Slide+" \o ToString(index + 1)

\* What the image provider can do with one call: reject, answer without an
\* inline image part, answer with one.
ImageOutcomes ==
  {[kind |-> "throw"], [kind |-> "nopayload"], [kind |-> "payload", data |-> "QUJD"]}


\* A provider answer without a payload is not told from one with a payload.
generateImageWithGemini_NoCheck(out) ==
  IF out.kind = "throw" THEN None
  ELSE Some("data:image/png;base64,"
            \o (IF out.kind = "payload" THEN out.data ELSE "undefined"))

\* generateImageWithGemini on a configured client: a data URI, or null.
generateImageWithGemini(out) ==
  IF out.kind = "payload" THEN Some("data:image/png;base64," \o out.data) ELSE None

\* generateImage after the provider call: the image, or the placeholder.
generateImage(out, index) == Coalesce(generateImageWithGemini(out), Placeholder(index))

buildSectionBody(section, request) ==
  "<h2>" \o section.title \o "</h2>" \o "\n"
    \o "<p>" \o section.summary \o "</p>" \o "\n"
    \o "<p>Audience: " \o request.audience \o "</p>"
    \o (IF request.tone = None \/ request.tone[1] = "" THEN ""
        ELSE "\n" \o "<p>Tone: " \o request.tone[1] \o "</p>")

Scoring(points, index) ==
  [points |-> points, analyticsKey |-> "section-" \o ToString(index + 1)]


\* A type that does not rotate with the section index.
EffectiveType_NoRotate(interactionTypes, index) ==
  LET interactionType == Coalesce(interactionTypes[1], "single")
  IN IF interactionType = "truefalse" THEN "truefalse"
     ELSE IF interactionType = "multi" THEN "multi"
     ELSE "single"

\* interactionTypes[index % interactionTypes.length] ?? 'single', then the
\* two tests for truefalse and multi; every other value builds a single.
EffectiveType(interactionTypes, index) ==
  LET interactionType ==
        Coalesce(interactionTypes[(index % Len(interactionTypes)) + 1], "single")
  IN IF interactionType = "truefalse" THEN "truefalse"
     ELSE IF interactionType = "multi" THEN "multi"
     ELSE "single"

TrueFalseBlock(section, index, base) ==
  [id |-> base + 3,
   type |-> "truefalse",
   question |-> section.title \o " - is the statement correct?",
   options |-> << [id |-> base + 1, label |-> "Correct"],
                  [id |-> base + 2, label |-> "Incorrect"] >>,
   answers |-> << base + 1 >>,
   explanation |-> "The key point of this section is: " \o section.summary,
   scoring |-> Scoring(5, index)]


\* A multi block that records only its first correct option.
MultiBlock_OneAnswer(section, index, base) ==
  [id |-> base + 4,
   type |-> "multi",
   question |-> "About [" \o section.title \o "], which descriptions are correct?",
   options |-> << [id |-> base + 1, label |-> section.summary],
                  [id |-> base + 2, label |-> "An applied scenario from class activities"],
                  [id |-> base + 3, label |-> "Extension knowledge unrelated to the topic"] >>,
   answers |-> << base + 1 >>,
   explanation |-> "The correct options cover the core and the practice of this section.",
   scoring |-> Scoring(15, index)]

MultiBlock(section, index, base) ==
  [id |-> base + 4,
   type |-> "multi",
   question |-> "About [" \o section.title \o "], which descriptions are correct?",
   options |-> << [id |-> base + 1, label |-> section.summary],
                  [id |-> base + 2, label |-> "An applied scenario from class activities"],
                  [id |-> base + 3, label |-> "Extension knowledge unrelated to the topic"] >>,
   answers |-> << base + 1, base + 2 >>,
   explanation |-> "The correct options cover the core and the practice of this section.",
   scoring |-> Scoring(15, index)]


\* A single block whose answer is an id drawn after the options were built.
SingleBlock_WrongAnswer(section, index, base) ==
  [id |-> base + 2,
   type |-> "single",
   question |-> section.title \o " - what is the key point?",
   options |-> << [id |-> base + 1, label |-> section.summary],
                  [id |-> base + 3, label |-> "Extension knowledge related to " \o section.title],
                  [id |-> base + 4, label |-> "Class activity arrangement"] >>,
   answers |-> << base + 5 >>,
   explanation |-> "The correct answer highlights [" \o section.summary \o "].",
   scoring |-> Scoring(10, index)]

SingleBlock(section, index, base) ==
  [id |-> base + 2,
   type |-> "single",
   question |-> section.title \o " - what is the key point?",
   options |-> << [id |-> base + 1, label |-> section.summary],
                  [id |-> base + 3, label |-> "Extension knowledge related to " \o section.title],
                  [id |-> base + 4, label |-> "Class activity arrangement"] >>,
   answers |-> << base + 1 >>,
   explanation |-> "The correct answer highlights [" \o section.summary \o "].",
   scoring |-> Scoring(10, index)]


\* A builder that stops at the end of the list instead of wrapping around.
buildInteraction_NoWrap(section, index, interactionTypes, base) ==
  IF index >= Len(interactionTypes) THEN None
  ELSE LET ty == EffectiveType(interactionTypes, index)
       IN IF ty = "truefalse" THEN Some(TrueFalseBlock(section, index, base))
          ELSE IF ty = "multi" THEN Some(MultiBlock(section, index, base))
          ELSE Some(SingleBlock(section, index, base))

\* buildInteraction: None for an empty list, otherwise the block of the
\* effective type. base is the last id handed out so far.
buildInteraction(section, index, interactionTypes, base) ==
  IF Len(interactionTypes) = 0 THEN None
  ELSE LET ty == EffectiveType(interactionTypes, index)
       IN IF ty = "truefalse" THEN Some(TrueFalseBlock(section, index, base))
          ELSE IF ty = "multi" THEN Some(MultiBlock(section, index, base))
          ELSE Some(SingleBlock(section, index, base))

\* The number of ids buildInteraction draws.
IdsDrawn(interaction) ==
  IF interaction = None THEN 0
  ELSE IF interaction[1].type = "truefalse" THEN 3 ELSE 4


\* A section that gets an id of its own instead of the outline section's.
CoursewareSection_FreshId(section, index, request, imageUrl, base) ==
  [id |-> base + 9,
   title |-> section.title,
   body |-> buildSectionBody(section, request),
   image |-> [prompt |-> buildImagePrompt(request, section),
              url |-> imageUrl,
              alt |-> section.title \o " illustration"],
   interaction |->
     buildInteraction(section, index, Coalesce(request.interactionTypes, <<>>), base)]

\* The section pushed by one turn of the loop of generateCourseware.
CoursewareSection(section, index, request, imageUrl, base) ==
  [id |-> section.id,
   title |-> section.title,
   body |-> buildSectionBody(section, request),
   image |-> [prompt |-> buildImagePrompt(request, section),
              url |-> imageUrl,
              alt |-> section.title \o " illustration"],
   interaction |->
     buildInteraction(section, index, Coalesce(request.interactionTypes, <<>>), base)]

BuildCourseware(outline, request, secs, base) ==
  [id |-> base + 1,
   title |-> outline.title,
   metadata |-> [topic |-> request.topic,
                 audience |-> request.audience,
                 objectives |-> Coalesce(request.objectives, <<>>)],
   sections |-> secs]

\* ------------------------------------ templates/courseware-html.ts
\* Texts are strings and are read one character at a time.
At(s, i) == IF i >= 1 /\ i <= Len(s) THEN SubSeq(s, i, i) ELSE ""

\* Whether t occurs in s at position i.
HasAt(s, i, t) == i >= 1 /\ i + Len(t) - 1 <= Len(s) /\ SubSeq(s, i, i + Len(t) - 1) = t

Contains(s, t) == \E i \in 1..Len(s) : HasAt(s, i, t)

\* value.replace(/c/g, rep) for a one-character pattern c
\* (a text without c is returned as it is; otherwise the result is put
\* together by halves)
ReplaceChar(value, c, rep) ==
  IF \A i \in 1..Len(value) : SubSeq(value, i, i) # c THEN value
  ELSE
  LET f[lo \in 1..(Len(value) + 1), hi \in 0..Len(value)] ==
        IF lo > hi THEN ""
        ELSE IF lo = hi THEN (IF At(value, lo) = c THEN rep ELSE At(value, lo))
        ELSE f[lo, (lo + hi) \div 2] \o f[((lo + hi) \div 2) + 1, hi]
  IN f[1, Len(value)]


\* escapeHtml: five replacements, the ampersand first.
escapeHtml(value) ==
  ReplaceChar(
    ReplaceChar(
      ReplaceChar(
        ReplaceChar(
          ReplaceChar(value, "&", "&amp;"),
          "<", "&lt;"),
        ">", "&gt;"),
      "\"", "&quot;"),
    "'", "&#39;")

\* The i flag of a pattern: both sides are compared in lower case.
LowerOf ==
  [A |-> "a", B |-> "b", C |-> "c", D |-> "d", E |-> "e", F |-> "f", G |-> "g",
   H |-> "h", I |-> "i", J |-> "j", K |-> "k", L |-> "l", M |-> "m", N |-> "n",
   O |-> "o", P |-> "p", Q |-> "q", R |-> "r", S |-> "s", T |-> "t", U |-> "u",
   V |-> "v", W |-> "w", X |-> "x", Y |-> "y", Z |-> "z"]

LowerChar(c) == IF c \in DOMAIN LowerOf THEN LowerOf[c] ELSE c

Lower(s) ==
  LET f[lo \in 1..(Len(s) + 1), hi \in 0..Len(s)] ==
        IF lo > hi THEN ""
        ELSE IF lo = hi THEN LowerChar(At(s, lo))
        ELSE f[lo, (lo + hi) \div 2] \o f[((lo + hi) \div 2) + 1, hi]
  IN f[1, Len(s)]

\* Whether t, given in lower case, occurs in s at position i when the case
\* of the letters is ignored.
HasAtIgnoreCase(s, i, t) ==
  /\ i >= 1
  /\ i + Len(t) - 1 <= Len(s)
  /\ \A k \in 1..Len(t) : LowerChar(SubSeq(s, i + k - 1, i + k - 1)) = SubSeq(t, k, k)

\* \s of a pattern
IsSpace(c) == c \in {" ", "\n", "\t", "\r"}

\* \s* read greedily from position i: the position of the first character
\* from i on that is no white space (Len(s) + 1 when there is none).
SkipSpace(s, i) ==
  IF \E k \in i..Len(s) : ~IsSpace(At(s, k))
    THEN CHOOSE k \in i..Len(s) : ~IsSpace(At(s, k)) /\ \A j \in i..(k - 1) : IsSpace(At(s, j))
    ELSE Len(s) + 1

HeadingLevels == {"1", "2", "3", "4", "5", "6"}

\* The opening tag of a pattern at position i of the text ls, the letters
\* in either case: <p[^>]*> for tag "p", <h[1-6][^>]*> for tag "h". The
\* position of its closing >, or 0 when there is no match at i.
OpenTagEnd(ls, i, tag) ==
  LET from == IF tag = "p" THEN i + 2 ELSE i + 3
      opens == IF tag = "p" THEN HasAt(ls, i, "<p") \/ HasAt(ls, i, "<P")
               ELSE (HasAt(ls, i, "<h") \/ HasAt(ls, i, "<H"))
                    /\ At(ls, i + 2) \in HeadingLevels
  IN IF opens /\ \E k \in from..Len(ls) : At(ls, k) = ">"
       THEN CHOOSE k \in from..Len(ls) :
              At(ls, k) = ">" /\ \A j \in from..(k - 1) : At(ls, j) # ">"
       ELSE 0

\* The closing tag at position k: the number of characters of </p> or
\* </h[1-6]>, or 0 when there is none at k.
CloseTagLen(ls, k, tag) ==
  IF tag = "p" THEN (IF HasAt(ls, k, "</p>") \/ HasAt(ls, k, "</P>") THEN 4 ELSE 0)
  ELSE IF (HasAt(ls, k, "</h") \/ HasAt(ls, k, "</H"))
          /\ At(ls, k + 3) \in HeadingLevels /\ At(ls, k + 4) = ">"
    THEN 5 ELSE 0


\* The fixed label of the audience paragraph and the colons the patterns
\* allow after it (the source allows the narrow and the wide colon; the wide
\* one is written ":" here, as in buildSectionBody).
AUDIENCE_LABEL == "Audience"
LabelColons == {":"}

\* The patterns of cleanSectionBody. Each is an opening tag, white space, an
\* inner part and a closing tag: the inner part is the escaped title followed
\* by white space ("title", the text being the title in lower case), the
\* audience label, a colon and a lazy run of any characters ("audience"), or
\* nothing ("empty").
Pattern(tag, kind, text) == [tag |-> tag, kind |-> kind, text |-> text]

\* A match of the title patterns at position i: the last position of the
\* match, or 0. The white space before the title is given back one character
\* at a time until the rest matches.
TitleMatchEnd(s, ls, i, tag, lt) ==
  LET j == OpenTagEnd(ls, i, tag)
      w == SkipSpace(s, j + 1)
      q(p) == SkipSpace(s, p + Len(lt))
      starts == {p \in (j + 1)..w :
                   HasAtIgnoreCase(ls, p, lt) /\ CloseTagLen(ls, q(p), tag) > 0}
      first == CHOOSE p \in starts : \A p2 \in starts : p2 <= p
  IN IF j = 0 \/ starts = {} THEN 0
     ELSE q(first) + CloseTagLen(ls, q(first), tag) - 1

\* A match of the audience patterns at position i: up to the first closing
\* tag after the colon.
AudienceMatchEnd(s, ls, i, tag) ==
  LET j == OpenTagEnd(ls, i, tag)
      w == SkipSpace(s, j + 1)
      from == w + Len(AUDIENCE_LABEL) + 1
      closes == {k \in from..Len(s) : CloseTagLen(ls, k, tag) > 0}
      k1 == CHOOSE k \in closes : \A k2 \in closes : k <= k2
  IN IF j = 0 \/ ~HasAt(s, w, AUDIENCE_LABEL)
        \/ At(s, w + Len(AUDIENCE_LABEL)) \notin LabelColons \/ closes = {}
       THEN 0
       ELSE k1 + CloseTagLen(ls, k1, tag) - 1

\* A match of the empty-paragraph pattern at position i.
EmptyMatchEnd(s, ls, i, tag) ==
  LET j == OpenTagEnd(ls, i, tag)
      w == SkipSpace(s, j + 1)
  IN IF j = 0 \/ CloseTagLen(ls, w, tag) = 0 THEN 0
     ELSE w + CloseTagLen(ls, w, tag) - 1

PatternMatchEnd(s, ls, i, pat) ==
  IF pat.kind = "title" THEN TitleMatchEnd(s, ls, i, pat.tag, pat.text)
  ELSE IF pat.kind = "audience" THEN AudienceMatchEnd(s, ls, i, pat.tag)
  ELSE EmptyMatchEnd(s, ls, i, pat.tag)

\* A text together with the positions of its "<" characters, where every
\* match of the patterns begins: they are looked up once and again only
\* after a replacement has changed the text.
Scanned(s) == [text |-> s, tags |-> {i \in 1..Len(s) : SubSeq(s, i, i) = "<"}]

\* cleaned.replace(pattern, '') with the flags gi: the matches are removed
\* from left to right, the search going on after each match.
RemoveAll(w, pat) ==
  LET s == w.text
      matches == {i \in w.tags : PatternMatchEnd(s, s, i, pat) > 0}
      f[i \in 1..(Len(s) + 1)] ==
        IF \A m \in matches : m < i THEN SubSeq(s, i, Len(s))
        ELSE LET m == CHOOSE m1 \in matches :
                        m1 >= i /\ \A m2 \in matches : m2 >= i => m1 <= m2
             IN SubSeq(s, i, m - 1) \o f[PatternMatchEnd(s, s, m, pat) + 1]
  IN IF matches = {} THEN w ELSE Scanned(f[1])


\* The two title replacements, made when the title is not empty.
TitleCleaned(w, title) ==
  IF title = "" THEN w
  ELSE LET lt == Lower(title)
       IN RemoveAll(RemoveAll(w, Pattern("p", "title", lt)), Pattern("h", "title", lt))

cleanSectionBody(body, title) ==
  IF body = "" THEN body
  ELSE RemoveAll(
         RemoveAll(
           RemoveAll(TitleCleaned(Scanned(body), title), Pattern("p", "audience", "")),
           Pattern("h", "audience", "")),
         Pattern("p", "empty", "")).text


\* A renderer that flags only the first answer as correct.
renderInteraction_FirstAnswer(interaction, sectionId) ==
  [type |-> interaction.type,
   question |-> escapeHtml(interaction.question),
   points |-> interaction.scoring.points,
   options |->
     [j \in 1..Len(interaction.options) |->
       [inputType |-> IF interaction.type = "multi" THEN "checkbox" ELSE "radio",
        name |-> "q-" \o ToString(sectionId),
        value |-> escapeHtml(ToString(interaction.options[j].id)),
        correct |->
          IF interaction.answers[1] = interaction.options[j].id THEN "true" ELSE "false",
        label |-> escapeHtml(interaction.options[j].label)]],
   explanation |-> escapeHtml(interaction.explanation)]

\* renderInteraction: the values the template interpolates. Ids are UUIDs in
\* the source and numbers here; their text is ToString of the number.
renderInteraction(interaction, sectionId) ==
  [type |-> interaction.type,
   question |-> escapeHtml(interaction.question),
   points |-> interaction.scoring.points,
   options |->
     [j \in 1..Len(interaction.options) |->
       [inputType |-> IF interaction.type = "multi" THEN "checkbox" ELSE "radio",
        name |-> "q-" \o ToString(sectionId),
        value |-> escapeHtml(ToString(interaction.options[j].id)),
        correct |->
          IF \E a \in 1..Len(interaction.answers) :
               interaction.answers[a] = interaction.options[j].id
            THEN "true" ELSE "false",
        label |-> escapeHtml(interaction.options[j].label)]],
   explanation |-> escapeHtml(interaction.explanation)]

\* renderSection: one slide.
renderSection(section, index, total) ==
  [index |-> index,
   src |-> section.image.url,
   alt |-> escapeHtml(section.image.alt),
   badge |-> "Scene " \o ToString(index + 1) \o "/" \o ToString(total),
   body |-> cleanSectionBody(section.body, section.title),
   interaction |->
     IF section.interaction = None THEN None
     ELSE Some(renderInteraction(section.interaction[1], section.id))]

\* renderCoursewareHtml: the document, as the values its template
\* interpolates; the style sheet and the script are the same in every
\* document.
renderCoursewareHtml(courseware) ==
  [title |-> escapeHtml(courseware.title),
   totalSlides |-> Len(courseware.sections),
   progress |-> "Scene 1 / " \o ToString(Len(courseware.sections)),
   score |-> "No interactions yet",
   slides |->
     [i \in 1..Len(courseware.sections) |->
       renderSection(courseware.sections[i], i - 1, Len(courseware.sections))]]

\* ------------------------------------------------------------ state
VARIABLES
  apiKey,         \* whether a credential is configured (client is non-null)
  request,        \* the brief of the request being served
  pc,             \* where the request is
  attempt,        \* loop variable of generateOutlineWithGemini
  textCalls,      \* text-provider calls made so far
  lastTry,        \* what the last attempt saw and whether it was accepted
  outline,        \* the result of generateOutline, once returned
  fault,          \* an exception left a public operation
  nextId,         \* the last value randomUUID handed out
  index,          \* loop variable of generateCourseware
  sections,       \* the sections pushed so far
  imageCalls,     \* image-provider calls made so far
  imageInFlight,  \* image-provider calls issued and not yet completed
  delays,         \* completed waitForNextImage calls
  artifact,       \* the result of generateCourseware, once returned
  rawText,        \* one attempt on its own: the text of the provider
  parsed,         \* one attempt on its own: what extractJson made of it
  \* concurrent generateCourseware requests on the one service instance
  now,            \* the clock, in ms
  rpc,            \* per request: where it is
  rn,             \* per request: the number of sections of its outline
  rindex,         \* per request: its loop variable
  timerAt,        \* per request: when its pending timer is due
  issuedAt,       \* per request: when its last image call was issued
  doneAt,         \* per request: when its last image call completed
  flying,         \* the image calls in flight, as <<request, index>>
  imageModel,     \* the service's imageModel field: null or the handle made
  access,         \* per request: how it has accessed the imageModel field
  \* a rendered document open in a browser
  page,           \* the courseware handed to renderCoursewareHtml
  doc,            \* the document rendered from it, once rendered
  currentIndex,   \* the script's currentIndex
  correctCount,   \* the script's correctCount
  dom,            \* what the script reads and writes in the document
  \* the HTTP route of the outline
  body,           \* the body of the request POST /api/outline received
  \* concurrent generateOutline requests on the one service instance
  textModel,      \* the service's textModel field: null or the handle made
  tpc,            \* per outline request: where it is
  tattempt,       \* per outline request: its loop variable attempt
  \* the wizard of the front end
  app,            \* the state of the App component
  pending,        \* the requests of the wizard that are in flight
  issued,         \* the number of requests the wizard has sent
  trail           \* how the active step was set, and whether reset came last

pipeVars ==
  <<request, pc, attempt, textCalls, lastTry, outline, fault, nextId,
    index, sections, imageCalls, imageInFlight, delays, artifact, rawText, parsed>>

tryVars == <<rawText, parsed>>

concVars ==
  <<now, rpc, rn, rindex, timerAt, issuedAt, doneAt, flying, imageModel, access>>

docVars == <<page, doc, currentIndex, correctCount, dom>>

textVars == <<textModel, tpc, tattempt>>

appVars == <<app, pending, issued, trail>>

edgeVars == <<body, textVars, appVars>>

vars == <<apiKey, pipeVars, concVars, docVars, edgeVars>>

Requests == {"r1", "r2"}

\* The concurrent requests are not part of the single-request specification.
ConcOff ==
  /\ now = 0
  /\ rpc = [r \in Requests |-> "off"]
  /\ rn = [r \in Requests |-> 0]
  /\ rindex = [r \in Requests |-> 0]
  /\ timerAt = [r \in Requests |-> -1]
  /\ issuedAt = [r \in Requests |-> -1]
  /\ doneAt = [r \in Requests |-> -1]
  /\ flying = {}
  /\ imageModel = None
  /\ access = [r \in Requests |-> {}]

\* No document is open in the specifications of the service.
NoDom == [slides |-> <<>>, quizzes |-> <<>>]

\* No attempt is looked at on its own.
TryOff ==
  /\ rawText = <<>>
  /\ parsed = None

DocOff ==
  /\ page = None
  /\ doc = None
  /\ currentIndex = 0
  /\ correctCount = 0
  /\ dom = NoDom

\* No request has reached the outline route.
OutlineRequests == {"o1", "o2"}

\* No outline request has arrived at the shared instance.
TextIdle ==
  /\ textModel = None
  /\ tpc = [o \in OutlineRequests |-> "idle"]
  /\ tattempt = [o \in OutlineRequests |-> 0]

\* The state of the App component after its first render.
NewApp ==
  [formFilled |-> FALSE,
   outline |-> None,
   coursewareArtifact |-> None,
   activeStep |-> "request",
   loadingOutline |-> FALSE,
   loadingCourseware |-> FALSE,
   errorMessage |-> FALSE]

NewTrail == [via |-> "initial", sinceReset |-> FALSE]

\* The wizard as it is loaded, with nothing sent.
AppLoaded ==
  /\ app = NewApp
  /\ pending = {}
  /\ issued = 0
  /\ trail = NewTrail

EdgeOff ==
  /\ body = None
  /\ TextIdle
  /\ AppLoaded

NoTry == [extracted |-> FALSE, count |-> 0, nulls |-> FALSE, accepted |-> FALSE]

Init ==
  /\ apiKey \in BOOLEAN
  /\ request \in Briefs
  /\ pc = "start"
  /\ attempt = 0
  /\ textCalls = 0
  /\ lastTry = NoTry
  /\ outline = None
  /\ fault = FALSE
  /\ nextId = 0
  /\ index = 0
  /\ sections = <<>>
  /\ imageCalls = 0
  /\ imageInFlight = 0
  /\ delays = 0
  /\ artifact = None
  /\ ConcOff
  /\ DocOff
  /\ TryOff
  /\ EdgeOff

cwVars == <<index, sections, imageCalls, imageInFlight, delays, artifact>>

\* ------------------------------------------------- generateOutline
\* generateOutlineWithGemini returns null at once without a client, and
\* generateOutline builds the fallback.
GenerateOutlineNoClient ==
  /\ pc = "start"
  /\ ~apiKey
  /\ outline' = Some(FallbackOutline(request, nextId))
  /\ nextId' = nextId + 4
  /\ pc' = "outlineDone"
  /\ UNCHANGED <<apiKey, request, attempt, textCalls, lastTry, fault>>
  /\ UNCHANGED cwVars
  /\ UNCHANGED <<edgeVars, concVars, docVars, tryVars>>

\* With a client the prompt is built and the loop starts at attempt 0.
GenerateOutlineStart ==
  /\ pc = "start"
  /\ apiKey
  /\ attempt' = 0
  /\ pc' = "attempt"
  /\ UNCHANGED <<apiKey, request, textCalls, lastTry, outline, fault, nextId>>
  /\ UNCHANGED cwVars
  /\ UNCHANGED <<edgeVars, concVars, docVars, tryVars>>

\* What an attempt saw: whether JSON was extracted, how many elements its
\* sections array has, and whether one of them is null.
Observed(resp, r) ==
  LET raw == generateTextWithGemini(resp)
      obj == IF raw = None THEN None ELSE extractJson(raw[1])
      secs == IF obj = None THEN Undefined ELSE obj[1].sections
  IN [extracted |-> obj # None,
      count |-> IF secs.t = "arr" THEN Len(secs.a) ELSE 0,
      nulls |-> secs.t = "arr" /\ \E i \in 1..Len(secs.a) : secs.a[i].t = "null",
      accepted |-> r.kind = "accept"]

\* One turn of the loop: the provider call, the try block, the catch block,
\* and, after the last turn, the fallback of generateOutline.
OutlineAttempt(resp) ==
  /\ pc = "attempt"
  /\ attempt <= MAX_RETRY
  /\ textCalls' = textCalls + 1
  /\ LET r == OutlineCatch(TryAttempt(request, resp, nextId))
     IN /\ lastTry' = Observed(resp, r)
        /\ IF r.kind = "accept"
             THEN /\ outline' = Some(r.outline)
                  /\ nextId' = nextId + 1 + Len(r.outline.sections)
                  /\ pc' = "outlineDone"
                  /\ UNCHANGED <<attempt, fault>>
           ELSE IF r.kind = "throw"
             THEN /\ fault' = TRUE
                  /\ pc' = "failed"
                  /\ UNCHANGED <<attempt, outline, nextId>>
           ELSE /\ attempt' = attempt + 1
                /\ UNCHANGED fault
                /\ IF attempt + 1 <= MAX_RETRY
                     THEN /\ pc' = "attempt"
                          /\ UNCHANGED <<outline, nextId>>
                     ELSE /\ outline' = Some(FallbackOutline(request, nextId))
                          /\ nextId' = nextId + 4
                          /\ pc' = "outlineDone"
  /\ UNCHANGED <<apiKey, request>>
  /\ UNCHANGED cwVars
  /\ UNCHANGED <<edgeVars, concVars, docVars, tryVars>>

\* ----------------------------------------------- generateCourseware
\* One assignment to the variables generateCourseware writes. An error that
\* leaves generateCourseware (the route answers 500) is the position "failed".
SetCw(p, i, secs, base, art, calls, inFlight) ==
  /\ pc' = p
  /\ fault' = (fault \/ p = "failed")
  /\ index' = i
  /\ sections' = secs
  /\ nextId' = base
  /\ artifact' = art
  /\ imageCalls' = calls
  /\ imageInFlight' = inFlight

\* A loop test that is off by one and leaves the last section out.
LoopTest_OneShort(i, secs, base, calls, inFlight) ==
  IF i + 1 < Len(outline[1].sections)
    THEN SetCw("wait", i, secs, base, artifact, calls, inFlight)
  ELSE IF "title" \notin DOMAIN outline[1]
    THEN SetCw("failed", i, secs, base + 1, artifact, calls, inFlight)
    ELSE SetCw("done", i, secs, base + 1,
               Some([courseware |-> BuildCourseware(outline[1], request, secs, base)]),
               calls, inFlight)

\* The loop test with index i and secs pushed: another turn starts with
\* waitForNextImage (i > 0 here), or the courseware is assembled, rendered and
\* returned. An outline without a title makes escapeHtml read replace of
\* undefined, which raises a TypeError. The html of the artifact is
\* renderCoursewareHtml of its courseware and of nothing else; the state keeps
\* the courseware, and the document is rendered where it is loaded
\* (RenderDocument).
LoopTest(i, secs, base, calls, inFlight) ==
  IF i < Len(outline[1].sections)
    THEN SetCw("wait", i, secs, base, artifact, calls, inFlight)
  ELSE IF "title" \notin DOMAIN outline[1]
    THEN SetCw("failed", i, secs, base + 1, artifact, calls, inFlight)
    ELSE SetCw("done", i, secs, base + 1,
               Some([courseware |-> BuildCourseware(outline[1], request, secs, base)]),
               calls, inFlight)

\* The rest of turn i once the image url is known: the interaction is built
\* and the section pushed.
PushSection(i, secs, imageUrl, base, calls, inFlight) ==
  LET sec == CoursewareSection(outline[1].sections[i + 1], i, request, imageUrl, base)
  IN LoopTest(i + 1, Append(secs, sec), base + IdsDrawn(sec.interaction), calls, inFlight)

\* Turn i from buildImagePrompt on: a null section raises a TypeError when
\* its assetsHint is read; generateImage returns the placeholder at once
\* without a credential, and issues the provider call with one.
Turn(i, secs, base) ==
  IF outline[1].sections[i + 1] = NullItem
    THEN SetCw("failed", i, secs, base, artifact, imageCalls, imageInFlight)
  ELSE IF apiKey
    THEN SetCw("awaitImage", i, secs, base, artifact, imageCalls + 1, imageInFlight + 1)
    ELSE PushSection(i, secs, Placeholder(i), base, imageCalls, imageInFlight)


\* A loop that waits before the first section as well.
CoursewareStart_WaitsFirst ==
  /\ pc = "outlineDone"
  /\ IF "sections" \notin DOMAIN outline[1]
       THEN SetCw("failed", 0, <<>>, nextId, artifact, imageCalls, imageInFlight)
       ELSE LoopTest(0, <<>>, nextId, imageCalls, imageInFlight)
  /\ UNCHANGED <<apiKey, request, attempt, textCalls, lastTry, outline, delays>>
  /\ UNCHANGED <<edgeVars, concVars, docVars, tryVars>>

\* generateCourseware is called with an outline and a brief. An outline
\* without sections raises a TypeError at the loop test.
CoursewareStart ==
  /\ pc = "outlineDone"
  /\ IF "sections" \notin DOMAIN outline[1]
       THEN SetCw("failed", 0, <<>>, nextId, artifact, imageCalls, imageInFlight)
     ELSE IF Len(outline[1].sections) = 0
       THEN LoopTest(0, <<>>, nextId, imageCalls, imageInFlight)
       ELSE Turn(0, <<>>, nextId)
  /\ UNCHANGED <<apiKey, request, attempt, textCalls, lastTry, outline, delays>>
  /\ UNCHANGED <<edgeVars, concVars, docVars, tryVars>>

\* A wait that is skipped when no credential is configured.
WaitForNextImage_OnlyWithKey ==
  /\ pc = "wait"
  /\ delays' = (IF apiKey THEN delays + 1 ELSE delays)
  /\ Turn(index, sections, nextId)
  /\ UNCHANGED <<apiKey, request, attempt, textCalls, lastTry, outline>>
  /\ UNCHANGED <<edgeVars, concVars, docVars, tryVars>>

\* waitForNextImage: the timer fires and the turn goes on.
WaitForNextImage ==
  /\ pc = "wait"
  /\ delays' = delays + 1
  /\ Turn(index, sections, nextId)
  /\ UNCHANGED <<apiKey, request, attempt, textCalls, lastTry, outline>>
  /\ UNCHANGED <<edgeVars, concVars, docVars, tryVars>>

\* A completion that notes in the outline that the section has its image.
ImageReturn_MarksOutline(out) ==
  /\ pc = "awaitImage"
  /\ PushSection(index, sections, generateImage(out, index), nextId,
                 imageCalls, imageInFlight - 1)
  /\ outline' = Some([outline[1] EXCEPT !.sections[index + 1].assetsHint = "done"])
  /\ UNCHANGED <<apiKey, request, attempt, textCalls, lastTry, delays>>
  /\ UNCHANGED <<edgeVars, concVars, docVars, tryVars>>

\* A failed or empty first call for a section is followed by a second call.
ImageReturn_Retry(out) ==
  /\ pc = "awaitImage"
  /\ IF out.kind # "payload" /\ imageCalls = index + 1
       THEN SetCw("awaitImage", index, sections, nextId, artifact,
                  imageCalls + 1, imageInFlight)
       ELSE PushSection(index, sections, generateImage(out, index), nextId,
                        imageCalls, imageInFlight - 1)
  /\ UNCHANGED <<apiKey, request, attempt, textCalls, lastTry, outline, delays>>
  /\ UNCHANGED <<edgeVars, concVars, docVars, tryVars>>

\* The image-provider call completes, one way or another.
ImageReturn(out) ==
  /\ pc = "awaitImage"
  /\ PushSection(index, sections, generateImage(out, index), nextId,
                 imageCalls, imageInFlight - 1)
  /\ UNCHANGED <<apiKey, request, attempt, textCalls, lastTry, outline, delays>>
  /\ UNCHANGED <<edgeVars, concVars, docVars, tryVars>>

Next ==
  \/ GenerateOutlineNoClient
  \/ GenerateOutlineStart
  \/ \E resp \in ProviderResponses : OutlineAttempt(resp)
  \/ CoursewareStart
  \/ WaitForNextImage
  \/ \E out \in ImageOutcomes : ImageReturn(out)

Spec == Init /\ [][Next]_vars

\* The request under the assumptions that every provider call returns or
\* fails, every timer fires and the code between two awaits runs to the next.
\* Termination does not depend on the interaction types: two briefs are run.
InitLive ==
  /\ Init
  /\ request.interactionTypes \in {None, Some(<<Some("multi"), Some("open")>>)}

SpecLive == InitLive /\ [][Next]_vars /\ WF_vars(Next)

\* ------------------------------------- concurrent generateCourseware
\* Several generateCourseware requests served by the one service instance.
\* Each suspends at its timer and at its image-provider call; what runs
\* between two suspend points is one step.

\* The single-request variables are not part of this specification.
PipeOff ==
  /\ request = [topic |-> "Photosynthesis", audience |-> "Grade 5",
                interactionTypes |-> None, tone |-> None, imageStyle |-> None,
                objectives |-> None]
  /\ pc = "off"
  /\ attempt = 0
  /\ textCalls = 0
  /\ lastTry = NoTry
  /\ outline = None
  /\ fault = FALSE
  /\ nextId = 0
  /\ index = 0
  /\ sections = <<>>
  /\ imageCalls = 0
  /\ imageInFlight = 0
  /\ delays = 0
  /\ artifact = None

InitConc ==
  /\ apiKey \in BOOLEAN
  /\ PipeOff
  /\ now = 0
  /\ rpc = [r \in Requests |-> "idle"]
  /\ rn = [r \in Requests |-> 0]
  /\ rindex = [r \in Requests |-> 0]
  /\ timerAt = [r \in Requests |-> -1]
  /\ issuedAt = [r \in Requests |-> -1]
  /\ doneAt = [r \in Requests |-> -1]
  /\ flying = {}
  /\ imageModel = None
  /\ access = [r \in Requests |-> {}]
  /\ DocOff
  /\ TryOff
  /\ EdgeOff

\* A timer that lets the request go on at once.
TimerDue_NoDelay(t) == t

\* waitForNextImage: setTimeout(resolve, 1000) at time t.
TimerDue(t) == t + DELAY_MS

\* The loop test of request r with index i, n sections: waitForNextImage
\* sets the timer, or the request returns.
ConcLoopTest(r, i, n) ==
  /\ rindex' = [rindex EXCEPT ![r] = i]
  /\ IF i < n
       THEN /\ rpc' = [rpc EXCEPT ![r] = "wait"]
            /\ timerAt' = [timerAt EXCEPT ![r] = TimerDue(now)]
       ELSE /\ rpc' = [rpc EXCEPT ![r] = "done"]
            /\ timerAt' = [timerAt EXCEPT ![r] = -1]

\* A test that makes every call create a handle.
NoImageModel_Always(m) == m = None \/ m # None

\* !this.imageModel
NoImageModel(m) == m = None

\* Turn i of request r from buildImagePrompt on: with a credential the
\* provider call is issued through the imageModel handle, which the first
\* call creates (the handle is named after that call); without a credential
\* the placeholder is pushed at once.
ConcTurn(r, i, n) ==
  IF apiKey
    THEN /\ flying' = flying \cup {<<r, i>>}
         /\ issuedAt' = [issuedAt EXCEPT ![r] = now]
         /\ rpc' = [rpc EXCEPT ![r] = "awaitImage"]
         /\ rindex' = [rindex EXCEPT ![r] = i]
         /\ timerAt' = [timerAt EXCEPT ![r] = -1]
         /\ IF NoImageModel(imageModel)
              THEN /\ imageModel' = Some(<<r, i>>)
                   /\ access' = [access EXCEPT ![r] = @ \cup {"read", "write"}]
              ELSE /\ UNCHANGED imageModel
                   /\ access' = [access EXCEPT ![r] = @ \cup {"read"}]
    ELSE /\ ConcLoopTest(r, i + 1, n)
         /\ UNCHANGED <<flying, issuedAt, imageModel, access>>

\* A request arrives with an outline of n sections.
ConcStart(r, n) ==
  /\ rpc[r] = "idle"
  /\ rn' = [rn EXCEPT ![r] = n]
  /\ IF n = 0
       THEN ConcLoopTest(r, 0, n) /\ UNCHANGED <<flying, issuedAt, imageModel, access>>
       ELSE ConcTurn(r, 0, n)
  /\ UNCHANGED <<apiKey, pipeVars, edgeVars, docVars, now, doneAt>>

\* The timer of request r fires, not before it is due.
ConcTimerFires(r) ==
  /\ rpc[r] = "wait"
  /\ now >= timerAt[r]
  /\ ConcTurn(r, rindex[r], rn[r])
  /\ UNCHANGED <<apiKey, pipeVars, edgeVars, docVars, now, rn, doneAt>>

\* The image-provider call of request r completes, one way or another, and
\* the section is pushed.
ConcImageReturn(r) ==
  /\ rpc[r] = "awaitImage"
  /\ flying' = flying \ {<<r, rindex[r]>>}
  /\ doneAt' = [doneAt EXCEPT ![r] = now]
  /\ ConcLoopTest(r, rindex[r] + 1, rn[r])
  /\ UNCHANGED <<apiKey, pipeVars, edgeVars, docVars, now, rn, issuedAt, imageModel, access>>

\* Time passes.
Tick ==
  /\ now + TickMs <= MaxClock
  /\ now' = now + TickMs
  /\ UNCHANGED <<apiKey, pipeVars, edgeVars, docVars, rpc, rn, rindex, timerAt, issuedAt, doneAt,
                 flying, imageModel, access>>

NextConc ==
  \/ \E r \in Requests, n \in 0..MaxSections : ConcStart(r, n)
  \/ \E r \in Requests : ConcTimerFires(r)
  \/ \E r \in Requests : ConcImageReturn(r)
  \/ Tick

SpecConc == InitConc /\ [][NextConc]_vars

\* ------------------------------- concurrent requests of both kinds
\* Outline requests and courseware requests served together by the one
\* service instance. An outline request suspends at its text-provider call.

\* A test that makes every call create a handle.
NoTextModel_Always(m) == m = None \/ m # None

\* !this.textModel
NoTextModel(m) == m = None

\* generateTextWithGemini up to its await: the first call creates the
\* textModel handle (named after that call), and the call is issued.
TextCall(o, a) ==
  /\ tpc' = [tpc EXCEPT ![o] = "awaitText"]
  /\ tattempt' = [tattempt EXCEPT ![o] = a]
  /\ IF NoTextModel(textModel)
       THEN textModel' = Some(<<o, a>>)
       ELSE UNCHANGED textModel

\* generateOutline is called: without a client generateOutlineWithGemini
\* returns null at once, with one the loop starts at attempt 0.
TextStart(o) ==
  /\ tpc[o] = "idle"
  /\ IF apiKey
       THEN TextCall(o, 0)
       ELSE /\ tpc' = [tpc EXCEPT ![o] = "done"]
            /\ UNCHANGED <<textModel, tattempt>>
  /\ UNCHANGED <<apiKey, pipeVars, concVars, docVars, body, appVars>>

\* The text-provider call of request o completes: an accepted attempt and
\* the last attempt end the loop, any other is followed by the next call.
TextReturn(o, accepted) ==
  /\ tpc[o] = "awaitText"
  /\ IF accepted \/ tattempt[o] + 1 > MAX_RETRY
       THEN /\ tpc' = [tpc EXCEPT ![o] = "done"]
            /\ UNCHANGED <<textModel, tattempt>>
       ELSE TextCall(o, tattempt[o] + 1)
  /\ UNCHANGED <<apiKey, pipeVars, concVars, docVars, body, appVars>>

NextModels ==
  \/ \E o \in OutlineRequests : TextStart(o)
  \/ \E o \in OutlineRequests, accepted \in BOOLEAN : TextReturn(o, accepted)
  \/ \E r \in Requests, n \in 0..MaxSections : ConcStart(r, n)
  \/ \E r \in Requests : ConcTimerFires(r)
  \/ \E r \in Requests : ConcImageReturn(r)
  \/ Tick

SpecModels == InitConc /\ [][NextModels]_vars

\* ------------------------------------------- POST /api/courseware
\* The route takes the outline and the brief from the body of the request:
\* they are what the client sent, not what generateOutline returned.

\* A section as generateOutline would have returned it.
ClientSection(i) ==
  [id |-> 100 + i, title |-> "Light", summary |-> "Plants use light",
   assetsHint |-> "a leaf in the sun", interactionHint |-> None]

\* The sections array of a client's outline: every element is a section or null.
ClientShapes == UNION {[1..n -> {"section", "null"}] : n \in 0..(MaxSections + 1)}

ClientSections(shape) ==
  [i \in 1..Len(shape) |-> IF shape[i] = "null" THEN NullItem ELSE ClientSection(i)]

\* The outlines of a client: with and without a title, with and without
\* sections.
ClientOutlines ==
  {[id |-> 100, title |-> "Course", sections |-> ClientSections(sh)] : sh \in ClientShapes}
  \cup {[id |-> 100, sections |-> ClientSections(sh)] : sh \in ClientShapes}
  \cup {[id |-> 100, title |-> "Course"]}

ClientBriefs ==
  [topic : Topics,
   audience : {"Grade 5"},
   interactionTypes : {None, Some(<<Some("multi"), Some("truefalse")>>)},
   tone : {None},
   imageStyle : {None},
   objectives : {None, Some(<<"Know what light does">>)}]

\* The bodies of the request: outline and request present, or one missing.
Payloads ==
  {[outline |-> Some(o), request |-> Some(b)] : o \in ClientOutlines, b \in ClientBriefs}
  \cup {[outline |-> None, request |-> Some(b)] : b \in ClientBriefs}
  \cup {[outline |-> Some(o), request |-> None] : o \in {[id |-> 100, title |-> "Course"]}}

InitApi ==
  /\ apiKey \in BOOLEAN
  /\ request = [topic |-> "Photosynthesis", audience |-> "Grade 5",
                interactionTypes |-> None, tone |-> None, imageStyle |-> None,
                objectives |-> None]
  /\ pc = "idle"
  /\ attempt = 0
  /\ textCalls = 0
  /\ lastTry = NoTry
  /\ outline = None
  /\ fault = FALSE
  /\ nextId = 0
  /\ index = 0
  /\ sections = <<>>
  /\ imageCalls = 0
  /\ imageInFlight = 0
  /\ delays = 0
  /\ artifact = None
  /\ ConcOff
  /\ DocOff
  /\ TryOff
  /\ EdgeOff

\* The route: a body without outline or without request is answered 400,
\* any other body is handed to generateCourseware.
PostCourseware(payload) ==
  /\ pc = "idle"
  /\ IF payload.outline = None \/ payload.request = None
       THEN /\ pc' = "rejected"
            /\ UNCHANGED <<outline, request>>
       ELSE /\ pc' = "outlineDone"
            /\ outline' = payload.outline
            /\ request' = payload.request[1]
  /\ UNCHANGED <<apiKey, attempt, textCalls, lastTry, fault, nextId>>
  /\ UNCHANGED cwVars
  /\ UNCHANGED <<edgeVars, concVars, docVars, tryVars>>

NextApi ==
  \/ \E payload \in Payloads : PostCourseware(payload)
  \/ CoursewareStart
  \/ WaitForNextImage
  \/ \E out \in ImageOutcomes : ImageReturn(out)

SpecApi == InitApi /\ [][NextApi]_vars

\* ---------------------------------------------- POST /api/outline
\* The body of the request is whatever JSON the client sent: every field is
\* missing, null, a string, a number, a boolean, an array or an object.
JStr(s) == [t |-> "str", s |-> s]
JNum(n) == [t |-> "num", n |-> n]
JBool(b) == [t |-> "bool", b |-> b]
JObject == [t |-> "obj"]

\* !v is false: every value but undefined, null, "", 0 and false.
Truthy(v) ==
  CASE v.t = "str" -> v.s # ""
    [] v.t = "num" -> v.n # 0
    [] v.t = "bool" -> v.b
    [] v.t \in {"undefined", "null"} -> FALSE
    [] OTHER -> TRUE

IsArray(v) == v.t = "arr"

WireTopics == {Undefined, NullItem, JStr("")} \cup {JStr(t) : t \in Topics}

WireAudiences == {Undefined, JStr(""), JStr("Grade 5")}

WireObjectives ==
  {Undefined, NullItem, JStr(""), JStr("Know what light does"), JNum(0),
   JBool(FALSE), JObject, Arr(<<>>), Arr(<<"Know what light does">>)}

WireInteractionTypes ==
  {Undefined, NullItem, JStr(""), JStr("multi"), JNum(0), JNum(1),
   JBool(FALSE), JBool(TRUE), Arr(<<>>), Arr(<<Some("multi"), Some("truefalse")>>)}

\* The bodies of the request: no body at all, or an object with these fields.
OutlineBodies ==
  {Undefined}
  \cup [t : {"obj"}, topic : WireTopics, audience : WireAudiences,
        objectives : WireObjectives, interactionTypes : WireInteractionTypes]

\* The three tests of the route, in their order: the status of the reply
\* when one of them answers, 200 when the body goes on to generateOutline.
ValidateOutlineBody(b) ==
  IF b = Undefined THEN 400
  ELSE IF ~Truthy(b.topic) \/ ~Truthy(b.audience) THEN 400
  ELSE IF Truthy(b.objectives) /\ ~IsArray(b.objectives) THEN 400
  ELSE IF Truthy(b.interactionTypes) /\ ~IsArray(b.interactionTypes) THEN 400
  ELSE 200

\* The brief generateOutline reads from a body that passed the tests. A
\* falsy interactionTypes that is not an array ("", 0, false, null) gives no
\* hint in pickInteractionHint, and a falsy objectives gives the default
\* text of the prompt: to generateOutline they are as good as missing.
BriefOf(b) ==
  [topic |-> b.topic.s,
   audience |-> b.audience.s,
   interactionTypes |-> IF IsArray(b.interactionTypes) THEN Some(b.interactionTypes.a) ELSE None,
   tone |-> None,
   imageStyle |-> None,
   objectives |-> IF IsArray(b.objectives) THEN Some(b.objectives.a) ELSE None]

\* The route: a body that fails a test is answered 400, any other body is
\* handed to generateOutline.
PostOutline(b) ==
  /\ pc = "idle"
  /\ body = None
  /\ body' = Some(b)
  /\ UNCHANGED <<textVars, appVars>>
  /\ IF ValidateOutlineBody(b) = 400
       THEN /\ pc' = "rejected"
            /\ UNCHANGED request
       ELSE /\ pc' = "start"
            /\ request' = BriefOf(b)
  /\ UNCHANGED <<apiKey, attempt, textCalls, lastTry, outline, fault, nextId>>
  /\ UNCHANGED cwVars
  /\ UNCHANGED <<concVars, docVars, tryVars>>

NextOutlineApi ==
  \/ \E b \in OutlineBodies : PostOutline(b)
  \/ GenerateOutlineNoClient
  \/ GenerateOutlineStart
  \/ \E resp \in ProviderResponses : OutlineAttempt(resp)

SpecOutlineApi == InitApi /\ [][NextOutlineApi]_vars

\* ------------------------------------- one attempt on its own
\* One turn of the loop of generateOutlineWithGemini from the text the
\* provider returned: extractJson, the test of the sections, the outline.
MaxText == 5

\* A section of the provider that carries an id of its own and a hint.
IdItem ==
  [t |-> "obj", id |-> Some(1), title |-> Some("Light"),
   summary |-> Some("Plants use light"), interactionHint |-> Some("truefalse"),
   assetsHint |-> None]

TextTokens ==
  {X, LB, RB, FOPEN, FCLOSE, Body(Some("Course"), Arr(<<IdItem, BareItem>>))}

ShortTexts == UNION {[1..n -> TextTokens] : n \in 1..MaxText}

\* The text is trimmed and not empty when extractJson gets it.
TrimmedTexts(texts) == {Trim(t) : t \in texts} \ {<<>>}

FirstBrief == CHOOSE b \in Briefs : b.interactionTypes = None

InitAttempt ==
  /\ apiKey = TRUE
  /\ \/ request \in Briefs /\ rawText \in TrimmedTexts(ProviderTexts)
     \/ request = FirstBrief /\ rawText \in TrimmedTexts(ShortTexts)
  /\ parsed = None
  /\ pc = "gotText"
  /\ attempt = 0
  /\ textCalls = 1
  /\ lastTry = NoTry
  /\ outline = None
  /\ fault = FALSE
  /\ nextId = 0
  /\ index = 0
  /\ sections = <<>>
  /\ imageCalls = 0
  /\ imageInFlight = 0
  /\ delays = 0
  /\ artifact = None
  /\ ConcOff
  /\ DocOff
  /\ EdgeOff

\* const parsed = this.extractJson(rawText)
ExtractJson ==
  /\ pc = "gotText"
  /\ parsed' = extractJson(rawText)
  /\ pc' = "parsed"
  /\ UNCHANGED <<apiKey, request, attempt, textCalls, lastTry, outline, fault, nextId, rawText>>
  /\ UNCHANGED cwVars
  /\ UNCHANGED <<edgeVars, concVars, docVars>>

\* The rest of the try block and the catch block: the attempt is given up
\* without sections, a TypeError of sections.map is caught, and the outline
\* is returned otherwise.
FinishAttempt ==
  /\ pc = "parsed"
  /\ IF NoSections(parsed) \/ MapThrows(parsed[1].sections)
       THEN /\ pc' = "continue"
            /\ UNCHANGED <<outline, nextId>>
       ELSE /\ pc' = "accepted"
            /\ outline' = Some(AcceptedOutline(request, parsed[1], nextId))
            /\ nextId' = nextId + 1 + Len(parsed[1].sections.a)
  /\ UNCHANGED <<apiKey, request, attempt, textCalls, lastTry, fault, rawText, parsed>>
  /\ UNCHANGED cwVars
  /\ UNCHANGED <<edgeVars, concVars, docVars>>

NextAttempt == ExtractJson \/ FinishAttempt

SpecAttempt == InitAttempt /\ [][NextAttempt]_vars

\* ------------------------------------------- rendering a courseware
\* generateCourseware without a credential, as one value: every image is the
\* placeholder. Section i draws its ids from 10 * i on.
CompiledCourseware(o, req) ==
  BuildCourseware(o, req,
    [i \in 1..Len(o.sections) |->
      CoursewareSection(o.sections[i], i - 1, req, Placeholder(i - 1), 10 * i)],
    10 * (Len(o.sections) + 1))

\* Titles and summaries as a provider or a client can send them.
RenderTitles ==
  {"Light", "<script>alert(1)</script>", "Tom & \"Jerry\" 'n' co",
   "<script></h2>\n<p><script>"}

RenderSummaries == {"Plants use light", "<script>", "<img src=x onerror=alert(1)>"}

RenderOutlines ==
  {[id |-> 100, title |-> ot,
    sections |-> << [id |-> 101, title |-> t, summary |-> su,
                     assetsHint |-> "a leaf in the sun", interactionHint |-> None] >>] :
     ot \in {"Course", "<b>R&D</b>"}, t \in RenderTitles, su \in RenderSummaries}

RenderBriefs ==
  [topic : Topics,
   audience : {"Grade 5"},
   interactionTypes : {None} \cup {Some(<<Some(t)>>) : t \in InteractionTypeValues},
   tone : {None},
   imageStyle : {None},
   objectives : {None}]

RenderPages == {CompiledCourseware(o, b) : o \in RenderOutlines, b \in RenderBriefs}

ServiceOff ==
  /\ apiKey = FALSE
  /\ PipeOff
  /\ ConcOff
  /\ TryOff
  /\ EdgeOff

InitRender ==
  /\ ServiceOff
  /\ page \in {Some(cw) : cw \in RenderPages}
  /\ doc = None
  /\ currentIndex = 0
  /\ correctCount = 0
  /\ dom = NoDom

\* The document is made of a courseware with another title than the returned one.
RenderDocument_OtherTitle ==
  /\ page # None
  /\ doc = None
  /\ doc' = Some(renderCoursewareHtml([page[1] EXCEPT !.title = "Draft: " \o @]))
  /\ UNCHANGED <<apiKey, pipeVars, edgeVars, concVars, page, currentIndex, correctCount, dom>>

\* renderCoursewareHtml is applied to the courseware.
RenderDocument ==
  /\ page # None
  /\ doc = None
  /\ doc' = Some(renderCoursewareHtml(page[1]))
  /\ UNCHANGED <<apiKey, pipeVars, edgeVars, concVars, page, currentIndex, correctCount, dom>>

\* A courseware that was rendered is rendered again.
RenderAgain ==
  /\ doc # None
  /\ doc' = Some(renderCoursewareHtml(page[1]))
  /\ UNCHANGED <<apiKey, pipeVars, edgeVars, concVars, page, currentIndex, correctCount, dom>>

NextRender == RenderDocument \/ RenderAgain

SpecRender == InitRender /\ [][NextRender]_vars

\* ------------------------------------------- bodies to clean
\* Section bodies and summaries made of a few tags and texts: the title of
\* the section, the audience line and the paragraph and heading tags.
MaxBody == 4

BodyTokens == {"<p>", "</p>", "<h2>", "</h2>", "Light", AUDIENCE_LABEL \o ": all"}

Concat(ts) ==
  LET f[i \in 0..Len(ts)] == IF i = 0 THEN "" ELSE f[i - 1] \o ts[i]
  IN f[Len(ts)]

TokenStrings == {Concat(ts) : ts \in UNION {[1..n -> BodyTokens] : n \in 1..MaxBody}}

\* A courseware of one section as the compiler builds it from a summary, and
\* the same courseware with another body.
SummaryPage(su) ==
  CompiledCourseware(
    [id |-> 100, title |-> "Course",
     sections |-> << [ClientSection(1) EXCEPT !.summary = su] >>],
    FirstBrief)

BodyPage(b) == [SummaryPage("Plants use light") EXCEPT !.sections[1].body = b]

CleanPages ==
  {SummaryPage(su) : su \in TokenStrings} \cup {BodyPage(b) : b \in TokenStrings}

InitClean ==
  /\ ServiceOff
  /\ page \in {Some(cw) : cw \in CleanPages}
  /\ doc = None
  /\ currentIndex = 0
  /\ correctCount = 0
  /\ dom = NoDom

SpecClean == InitClean /\ [][NextRender]_vars

\* ------------------------------------------- the document's script
\* A courseware with plain texts, of every size the compiler returns, with no
\* interaction, with singles, and with multi and truefalse in turn.
DocOutlines ==
  {[id |-> 100, title |-> "Course", sections |-> [i \in 1..n |-> ClientSection(i)]] :
     n \in 0..MaxSections}

DocBriefs ==
  [topic : Topics,
   audience : {"Grade 5"},
   interactionTypes :
     {None, Some(<<Some("single")>>), Some(<<Some("multi"), Some("truefalse")>>)},
   tone : {None},
   imageStyle : {None},
   objectives : {None}]

DocPages == {CompiledCourseware(o, b) : o \in DocOutlines, b \in DocBriefs}

InitDoc ==
  /\ ServiceOff
  /\ page \in {Some(cw) : cw \in DocPages}
  /\ doc = None
  /\ currentIndex = 0
  /\ correctCount = 0
  /\ dom = NoDom

\* The script has run once the document holds what it writes.
Loaded == "progress" \in DOMAIN dom

\* querySelectorAll('.interaction'): the slides with an interaction, in
\* document order.
Interactions(d) ==
  LET f[i \in 0..Len(d.slides)] ==
        IF i = 0 THEN <<>>
        ELSE IF d.slides[i].interaction # None THEN Append(f[i - 1], i)
        ELSE f[i - 1]
  IN f[Len(d.slides)]

\* inputs: the option inputs of interaction k of the document.
Inputs(k) == doc[1].slides[dom.quizzes[k].slide].interaction[1].options

\* The values of the inputs whose position is in keep, in document order.
ValuesOf(inputs, keep) ==
  LET f[i \in 0..Len(inputs)] ==
        IF i = 0 THEN <<>>
        ELSE IF i \in keep THEN Append(f[i - 1], inputs[i].value)
        ELSE f[i - 1]
  IN f[Len(inputs)]

getSelectedValues(inputs, checked) == ValuesOf(inputs, checked)

getCorrectValues(inputs) ==
  ValuesOf(inputs, {j \in 1..Len(inputs) : inputs[j].correct = "true"})

\* A test that only asks whether every selected value is a correct one.
isCorrect_NoLength(selected, correct) ==
  \A i \in 1..Len(selected) : \E j \in 1..Len(correct) : selected[i] = correct[j]

\* selected.length === correct.length && selected.every(correct.includes)
isCorrect(selected, correct) ==
  /\ Len(selected) = Len(correct)
  /\ \A i \in 1..Len(selected) : \E j \in 1..Len(correct) : selected[i] = correct[j]

\* A marking that shows the correct options only.
markOptions_OnlyCorrect(inputs, checked) ==
  [j \in 1..Len(inputs) |->
    IF inputs[j].correct = "true" THEN "option--correct" ELSE ""]

\* markOptions: a flagged input's wrapper is option--correct, another input's
\* wrapper is option--wrong when the input is checked.
markOptions(inputs, checked) ==
  [j \in 1..Len(inputs) |->
    IF inputs[j].correct = "true" THEN "option--correct"
    ELSE IF j \in checked THEN "option--wrong"
    ELSE ""]

clearMarks(inputs) == [j \in 1..Len(inputs) |-> ""]

updateScoreboard(count, totalQuizzes) ==
  IF totalQuizzes = 0 THEN "No interactions yet"
  ELSE ToString(count) \o " / " \o ToString(totalQuizzes)

updateSlides(d, current) ==
  [d EXCEPT
     !.slides = [i \in 1..Len(d.slides) |-> (i - 1 = current)],
     !.prevDisabled = (current = 0),
     !.nextDisabled = (current = Len(d.slides) - 1),
     !.progress = "Scene " \o ToString(current + 1) \o " / " \o ToString(Len(d.slides))]

\* The document as parsed: no slide is active, no button is disabled, no
\* input is checked, the texts are the rendered ones.
ParsedDom(d) ==
  [slides |-> [i \in 1..Len(d.slides) |-> FALSE],
   prevDisabled |-> FALSE,
   nextDisabled |-> FALSE,
   progress |-> d.progress,
   score |-> d.score,
   quizzes |->
     [k \in 1..Len(Interactions(d)) |->
       [slide |-> Interactions(d)[k],
        state |-> "",
        checked |-> {},
        marks |-> clearMarks(d.slides[Interactions(d)[k]].interaction[1].options),
        feedback |-> ""]]]

\* The browser parses the document and runs the script to its end:
\* currentIndex and correctCount are 0, updateScoreboard(), updateSlides().
LoadDocument ==
  /\ doc # None
  /\ ~Loaded
  /\ currentIndex' = 0
  /\ correctCount' = 0
  /\ dom' = updateSlides(
              [ParsedDom(doc[1]) EXCEPT
                 !.score = updateScoreboard(0, Len(Interactions(doc[1])))],
              0)
  /\ UNCHANGED <<apiKey, pipeVars, edgeVars, concVars, page, doc>>

\* A click on prevBtn; a disabled button gets no click.
ClickPrev ==
  /\ Loaded
  /\ ~dom.prevDisabled
  /\ IF currentIndex > 0
       THEN /\ currentIndex' = currentIndex - 1
            /\ dom' = updateSlides(dom, currentIndex - 1)
       ELSE UNCHANGED <<currentIndex, dom>>
  /\ UNCHANGED <<apiKey, pipeVars, edgeVars, concVars, page, doc, correctCount>>

\* A click on nextBtn.
ClickNext ==
  /\ Loaded
  /\ ~dom.nextDisabled
  /\ IF currentIndex < Len(dom.slides) - 1
       THEN /\ currentIndex' = currentIndex + 1
            /\ dom' = updateSlides(dom, currentIndex + 1)
       ELSE UNCHANGED <<currentIndex, dom>>
  /\ UNCHANGED <<apiKey, pipeVars, edgeVars, concVars, page, doc, correctCount>>

\* Only the active slide is displayed, so only its interaction gets clicks.
Shown(k) ==
  /\ Loaded
  /\ k \in 1..Len(dom.quizzes)
  /\ dom.slides[dom.quizzes[k].slide]

\* A click on input j of interaction k: a radio becomes the one checked input
\* of its group (the group is the section's, name q-<section id>), a checkbox
\* changes its own state.
ToggleOption(k, j) ==
  /\ Shown(k)
  /\ j \in 1..Len(Inputs(k))
  /\ dom' = [dom EXCEPT !.quizzes[k].checked =
               IF Inputs(k)[j].inputType = "radio" THEN {j}
               ELSE IF j \in @ THEN @ \ {j} ELSE @ \cup {j}]
  /\ UNCHANGED <<apiKey, pipeVars, edgeVars, concVars, page, doc, currentIndex, correctCount>>

Max(a, b) == IF a > b THEN a ELSE b

\* A count that goes up at every correct submission.
CountAfterSubmit_EveryTime(count, wasCorrect, nowCorrect) ==
  IF nowCorrect THEN count + 1
  ELSE IF wasCorrect /\ ~nowCorrect THEN Max(0, count - 1)
  ELSE count

\* The end of the submit handler: correctCount after it.
CountAfterSubmit(count, wasCorrect, nowCorrect) ==
  IF ~wasCorrect /\ nowCorrect THEN count + 1
  ELSE IF wasCorrect /\ ~nowCorrect THEN Max(0, count - 1)
  ELSE count

\* A click on the submit button of interaction k.
Submit(k) ==
  /\ Shown(k)
  /\ LET q == dom.quizzes[k]
         wasCorrect == q.state = "interaction--correct"
         nowCorrect == isCorrect(getSelectedValues(Inputs(k), q.checked),
                                 getCorrectValues(Inputs(k)))
         count == CountAfterSubmit(correctCount, wasCorrect, nowCorrect)
     IN /\ correctCount' = count
        /\ dom' = [dom EXCEPT
             !.quizzes[k] =
               [q EXCEPT
                  !.state = IF nowCorrect THEN "interaction--correct"
                            ELSE "interaction--incorrect",
                  !.feedback = IF nowCorrect THEN "Correct!"
                               ELSE "Think again, the correct answer is highlighted.",
                  !.marks = markOptions(Inputs(k), q.checked)],
             !.score = IF wasCorrect # nowCorrect
                         THEN updateScoreboard(count, Len(dom.quizzes))
                         ELSE @]
  /\ UNCHANGED <<apiKey, pipeVars, edgeVars, concVars, page, doc, currentIndex>>

\* A reset that leaves the scoreboard as it is.
Reset_StaleScore(k) ==
  /\ Shown(k)
  /\ LET q == dom.quizzes[k]
         wasCorrect == q.state = "interaction--correct"
         count == IF wasCorrect THEN Max(0, correctCount - 1) ELSE correctCount
     IN /\ correctCount' = count
        /\ dom' = [dom EXCEPT
             !.quizzes[k] =
               [q EXCEPT !.state = "", !.feedback = "", !.checked = {},
                         !.marks = clearMarks(Inputs(k))]]
  /\ UNCHANGED <<apiKey, pipeVars, edgeVars, concVars, page, doc, currentIndex>>

\* A click on the reset button of interaction k.
Reset(k) ==
  /\ Shown(k)
  /\ LET q == dom.quizzes[k]
         wasCorrect == q.state = "interaction--correct"
         count == IF wasCorrect THEN Max(0, correctCount - 1) ELSE correctCount
     IN /\ correctCount' = count
        /\ dom' = [dom EXCEPT
             !.quizzes[k] =
               [q EXCEPT !.state = "", !.feedback = "", !.checked = {},
                         !.marks = clearMarks(Inputs(k))],
             !.score = IF wasCorrect THEN updateScoreboard(count, Len(dom.quizzes))
                       ELSE @]
  /\ UNCHANGED <<apiKey, pipeVars, edgeVars, concVars, page, doc, currentIndex>>

NextDoc ==
  \/ RenderDocument
  \/ LoadDocument
  \/ ClickPrev
  \/ ClickNext
  \/ \E k \in 1..Len(dom.quizzes) : \E j \in 1..Len(Inputs(k)) : ToggleOption(k, j)
  \/ \E k \in 1..Len(dom.quizzes) : Submit(k)
  \/ \E k \in 1..Len(dom.quizzes) : Reset(k)

SpecDoc == InitDoc /\ [][NextDoc]_vars

\* ------------------------------------------- the front-end wizard
\* The App component: its state, the handlers of its buttons and links, and
\* the continuations of its two requests. A handler runs to its await or to
\* its end in one step, and the state it sets is rendered before the next.

MaxRequests == 3

Steps == {"request", "outline", "courseware"}

\* The form is kept as what the handlers test: whether topic and audience
\* are filled. The user types into it or clears it.
EditForm ==
  /\ app' = [app EXCEPT !.formFilled = ~app.formFilled]
  /\ UNCHANGED <<pending, issued, trail>>
  /\ UNCHANGED <<apiKey, pipeVars, concVars, docVars, body, textVars>>

\* handleGenerateOutline up to its await. The button is in the panel of the
\* request step and is disabled while loadingOutline. An unfilled form throws
\* before the request is sent: the catch and finally blocks run at once.
HandleGenerateOutline ==
  /\ app.activeStep = "request"
  /\ ~app.loadingOutline
  /\ app.formFilled => issued < MaxRequests
  /\ trail' = [via |-> "handler", sinceReset |-> FALSE]
  /\ IF ~app.formFilled
       THEN /\ app' = [app EXCEPT !.errorMessage = TRUE,
                                  !.loadingOutline = FALSE,
                                  !.coursewareArtifact = None,
                                  !.outline = None,
                                  !.activeStep = "request"]
            /\ UNCHANGED <<pending, issued>>
       ELSE /\ app' = [app EXCEPT !.errorMessage = FALSE,
                                  !.loadingOutline = TRUE,
                                  !.coursewareArtifact = None,
                                  !.activeStep = "request"]
            /\ issued' = issued + 1
            /\ pending' = pending \cup {[kind |-> "outline", id |-> issued + 1]}
  /\ UNCHANGED <<apiKey, pipeVars, concVars, docVars, body, textVars>>

\* The outline request p completes: with the outline the server built for
\* it (every outline has fresh ids, here the number of the request), or
\* with an error.
OutlineResponse(p, ok) ==
  /\ p \in pending
  /\ p.kind = "outline"
  /\ pending' = pending \ {p}
  /\ app' = IF ok
              THEN [app EXCEPT !.outline = Some(p.id),
                               !.activeStep = "outline",
                               !.loadingOutline = FALSE]
              ELSE [app EXCEPT !.errorMessage = TRUE,
                               !.outline = None,
                               !.activeStep = "request",
                               !.loadingOutline = FALSE]
  /\ trail' = [trail EXCEPT !.via = "handler"]
  /\ UNCHANGED issued
  /\ UNCHANGED <<apiKey, pipeVars, concVars, docVars, body, textVars>>

\* handleGenerateCourseware up to its await. The button is in the panel of
\* the outline step under the outline and is disabled while
\* loadingCourseware. The request carries the outline of this render.
HandleGenerateCourseware ==
  /\ app.activeStep = "outline"
  /\ app.outline # None
  /\ ~app.loadingCourseware
  /\ app.formFilled => issued < MaxRequests
  /\ trail' = [trail EXCEPT !.sinceReset = FALSE]
  /\ IF ~app.formFilled
       THEN /\ app' = [app EXCEPT !.errorMessage = TRUE,
                                  !.loadingCourseware = FALSE,
                                  !.coursewareArtifact = None]
            /\ UNCHANGED <<pending, issued>>
       ELSE /\ app' = [app EXCEPT !.errorMessage = FALSE,
                                  !.loadingCourseware = TRUE]
            /\ issued' = issued + 1
            /\ pending' = pending \cup {[kind |-> "courseware", id |-> issued + 1,
                                         outline |-> app.outline[1]]}
  /\ UNCHANGED <<apiKey, pipeVars, concVars, docVars, body, textVars>>

\* The courseware request p completes: with the artifact built from the
\* outline it carried, or with an error.
CoursewareResponse(p, ok) ==
  /\ p \in pending
  /\ p.kind = "courseware"
  /\ pending' = pending \ {p}
  /\ IF ok
       THEN /\ app' = [app EXCEPT !.coursewareArtifact = Some([outline |-> p.outline]),
                                  !.activeStep = "courseware",
                                  !.loadingCourseware = FALSE]
            /\ trail' = [trail EXCEPT !.via = "handler"]
       ELSE /\ app' = [app EXCEPT !.errorMessage = TRUE,
                                  !.coursewareArtifact = None,
                                  !.loadingCourseware = FALSE]
            /\ UNCHANGED trail
  /\ UNCHANGED issued
  /\ UNCHANGED <<apiKey, pipeVars, concVars, docVars, body, textVars>>

\* handleReset: the form, the outline, the artifact, the message and the
\* step are set back; the two loading flags are not touched.
HandleReset ==
  /\ app' = [app EXCEPT !.formFilled = FALSE,
                        !.outline = None,
                        !.coursewareArtifact = None,
                        !.errorMessage = FALSE,
                        !.activeStep = "request"]
  /\ trail' = [via |-> "handler", sinceReset |-> TRUE]
  /\ UNCHANGED <<pending, issued>>
  /\ UNCHANGED <<apiKey, pipeVars, concVars, docVars, body, textVars>>

\* A step button that is never disabled.
isStepDisabled_Never(step) == FALSE

isStepDisabled(step) ==
  IF step = "outline" THEN app.outline = None \/ app.loadingOutline
  ELSE IF step = "courseware" THEN app.coursewareArtifact = None \/ app.loadingCourseware
  ELSE FALSE

\* handleStepChange: a click on a step button that is not disabled.
HandleStepChange(step) ==
  /\ ~isStepDisabled(step)
  /\ app' = [app EXCEPT !.activeStep = step]
  /\ trail' = [trail EXCEPT !.via = "stepButton"]
  /\ UNCHANGED <<pending, issued>>
  /\ UNCHANGED <<apiKey, pipeVars, concVars, docVars, body, textVars>>

\* The link of the outline panel back to the request step, and the link of
\* the courseware panels back to the outline step.
BackLink ==
  /\ app.activeStep \in {"outline", "courseware"}
  /\ app' = [app EXCEPT !.activeStep =
                          IF app.activeStep = "outline" THEN "request" ELSE "outline"]
  /\ trail' = [trail EXCEPT !.via = "backLink"]
  /\ UNCHANGED <<pending, issued>>
  /\ UNCHANGED <<apiKey, pipeVars, concVars, docVars, body, textVars>>

InitWizard ==
  /\ ServiceOff
  /\ DocOff

NextWizard ==
  \/ EditForm
  \/ HandleGenerateOutline
  \/ \E p \in pending, ok \in BOOLEAN : OutlineResponse(p, ok)
  \/ HandleGenerateCourseware
  \/ \E p \in pending, ok \in BOOLEAN : CoursewareResponse(p, ok)
  \/ HandleReset
  \/ \E step \in Steps : HandleStepChange(step)
  \/ BackLink

SpecWizard == InitWizard /\ [][NextWizard]_vars

\* ================================================================ claims
Returned == pc \notin {"start", "attempt", "failed"}

RequestedTypes == Coalesce(request.interactionTypes, <<>>)

\* C1: generateOutline never fails: whatever the provider does on each
\* attempt, no exception leaves the operation, the loop is never stuck, and
\* once past the loop an outline has been returned.
C1_NeverFails ==
  /\ ~fault
  /\ pc # "failed"
  /\ pc = "attempt" => attempt <= 2
  /\ pc \notin {"start", "attempt"} => outline # None

\* An outline was returned although the last attempt raised an error inside
\* the try block (a null element in sections).
C1_Witness ==
  /\ pc = "outlineDone"
  /\ lastTry.nulls
  /\ outline # None

\* C2: every outline returned by generateOutline has at least 3 sections and
\* a non-empty title.
C2_AtLeastThreeSections ==
  outline # None => Len(outline[1].sections) >= 3 /\ outline[1].title # ""

C3_State ==
  /\ textCalls <= 3
  /\ pc = "attempt" => textCalls = attempt /\ attempt <= 2
  /\ lastTry.accepted => pc # "attempt"
  /\ (Returned /\ apiKey /\ ~lastTry.accepted) => textCalls = 3

\* C3 (as amended): at most 3 provider calls per generateOutline call; an
\* attempt is accepted exactly when JSON was extracted and its sections value
\* is a non-empty array without a null element; acceptance ends the loop and
\* no provider call follows it; an unaccepted attempt is followed by the next
\* one while fewer than 3 have been made.
C3_Attempts ==
  /\ [](C3_State
        /\ (textCalls > 0 =>
             (lastTry.accepted <=>
               (lastTry.extracted /\ lastTry.count >= 1 /\ ~lastTry.nulls))))
  /\ [][pc # "attempt" => textCalls' = textCalls]_vars

\* The third call was made after two unaccepted attempts and was accepted.
C3_Witness ==
  /\ textCalls = 3
  /\ lastTry.accepted
  /\ pc = "outlineDone"

\* C3 as stated: an attempt is accepted exactly when JSON was extracted from
\* its text and it has at least one section.
C3_Original ==
  /\ C3_State
  /\ textCalls > 0 => (lastTry.accepted <=> (lastTry.extracted /\ lastTry.count >= 1))

\* The skeleton as the claim gives it: three fixed sections whose text
\* mentions the topic and nothing else of the brief.
C4_Skeleton(topic) ==
  << [title |-> "Part 1: Introduction",
      summary |-> "Introduce the background and importance of [" \o topic \o "].",
      assetsHint |-> "Show a lead-in picture related to [" \o topic \o "]."],
     [title |-> "Part 2: Core Content",
      summary |-> "Explain the key points of [" \o topic \o "] with examples.",
      assetsHint |-> "Prepare a diagram or case illustration of the core concept."],
     [title |-> "Part 3: Summary and Extension",
      summary |-> "Summarise [" \o topic \o "] and suggest further practice.",
      assetsHint |-> "Use a concept map or mind map picture to aid memory."] >>

RoundRobin(i) ==
  IF Len(RequestedTypes) = 0 THEN None
  ELSE RequestedTypes[((i - 1) % Len(RequestedTypes)) + 1]

IsSkeleton(o) ==
  /\ o.title = request.topic \o " interactive courseware"
  /\ Len(o.sections) = 3
  /\ \A i \in 1..3 :
       /\ o.sections[i].title = C4_Skeleton(request.topic)[i].title
       /\ o.sections[i].summary = C4_Skeleton(request.topic)[i].summary
       /\ o.sections[i].assetsHint = C4_Skeleton(request.topic)[i].assetsHint
       /\ o.sections[i].interactionHint = RoundRobin(i)

\* C4: when all 3 attempts end without acceptance, whatever the mix of
\* provider errors, empty texts, unparseable output and empty sections, the
\* outline returned is the fixed 3-section skeleton built from the topic, with
\* section i's interactionHint taken round-robin from the brief's types.
C4_FallbackSkeleton ==
  (Returned /\ apiKey /\ ~lastTry.accepted) =>
    textCalls = 3 /\ IsSkeleton(outline[1])

\* The fallback was returned after a last attempt whose JSON was extracted
\* but had no sections, for a brief with two different types.
C4_Witness ==
  /\ pc = "outlineDone"
  /\ apiKey
  /\ textCalls = 3
  /\ lastTry.extracted
  /\ ~lastTry.accepted
  /\ Len(RequestedTypes) = 2
  /\ RequestedTypes[1] # RequestedTypes[2]

OptionIds(b) == {b.options[j].id : j \in 1..Len(b.options)}

AnswerIds(b) == {b.answers[j] : j \in 1..Len(b.answers)}

LabelOf(b, id) == (CHOOSE o \in {b.options[j] : j \in 1..Len(b.options)} : o.id = id).label

\* C5: without a credential no text-provider and no image-provider call is
\* made, the outline is the 3 fallback sections with round-robin hints (all
\* single for [single]), and the courseware has exactly 3 sections, section i
\* with the placeholder url ending in Slide+i and, for [single], a single
\* interaction whose correct option is labelled with the section's summary.
C5_NoCredential ==
  ~apiKey =>
    /\ textCalls = 0
    /\ imageCalls = 0
    /\ imageInFlight = 0
    /\ outline # None =>
         /\ IsSkeleton(outline[1])
         /\ request.interactionTypes = Some(<<Some("single")>>) =>
              \A i \in 1..3 : outline[1].sections[i].interactionHint = Some("single")
    /\ pc = "done" =>
         LET secs == artifact[1].courseware.sections
         IN /\ Len(secs) = 3
            /\ \A i \in 1..3 :
                 /\ secs[i].image.url
                      = "https://placehold.co/800x600?text=Slide+" \o ToString(i)
                 /\ request.interactionTypes = Some(<<Some("single")>>) =>
                      /\ secs[i].interaction # None
                      /\ secs[i].interaction[1].type = "single"
                      /\ Len(secs[i].interaction[1].answers) = 1
                      /\ LabelOf(secs[i].interaction[1], secs[i].interaction[1].answers[1])
                           = outline[1].sections[i].summary

\* The courseware was returned without a credential for interactionTypes
\* [single].
C5_Witness ==
  /\ ~apiKey
  /\ pc = "done"
  /\ request.interactionTypes = Some(<<Some("single")>>)
  /\ Len(artifact[1].courseware.sections) = 3

Blocks == {sections[i].interaction[1] : i \in {j \in 1..Len(sections) : sections[j].interaction # None}}

\* C6: every interaction block of a courseware is self-consistent: at least
\* 2 options, pairwise distinct option ids, a non-empty answer set, and every
\* answer the id of one of its options.
C6_SelfConsistent ==
  /\ \A b \in Blocks :
       /\ Len(b.options) >= 2
       /\ Cardinality(OptionIds(b)) = Len(b.options)
       /\ b.answers # <<>>
       /\ AnswerIds(b) \subseteq OptionIds(b)
  /\ pc = "done" => artifact[1].courseware.sections = sections

\* A returned courseware holds a single block and a multi block.
C6_Witness ==
  /\ pc = "done"
  /\ \E b \in Blocks : b.type = "single"
  /\ \E b \in Blocks : b.type = "multi"

\* C7: per type: multi has 3 options and exactly 2 answers, the first two
\* options; truefalse has exactly 2 options and 1 answer; single has exactly
\* 1 answer, the id of the first-listed option. Points are 15, 5 and 10 and
\* analyticsKey is section-{index+1}.
C7_PerType ==
  \A i \in 1..Len(sections) :
    sections[i].interaction # None =>
      LET b == sections[i].interaction[1]
      IN /\ b.type \in {"multi", "truefalse", "single"}
         /\ b.scoring.analyticsKey = "section-" \o ToString(i)
         /\ b.type = "multi" =>
              /\ Len(b.options) = 3
              /\ Len(b.answers) = 2
              /\ b.answers[1] # b.answers[2]
              /\ AnswerIds(b) = {b.options[1].id, b.options[2].id}
              /\ b.scoring.points = 15
         /\ b.type = "truefalse" =>
              /\ Len(b.options) = 2
              /\ Len(b.answers) = 1
              /\ AnswerIds(b) \subseteq OptionIds(b)
              /\ b.scoring.points = 5
         /\ b.type = "single" =>
              /\ Len(b.answers) = 1
              /\ b.answers[1] = b.options[1].id
              /\ b.scoring.points = 10

\* A returned courseware holds a multi block and a truefalse block.
C7_Witness ==
  /\ pc = "done"
  /\ \E b \in Blocks : b.type = "multi"
  /\ \E b \in Blocks : b.type = "truefalse"

\* C8: if the brief's interactionTypes is absent or empty, no section of the
\* courseware has an interaction; if it is non-empty, every section has one.
C8_AllOrNone ==
  \A i \in 1..Len(sections) :
    /\ Len(RequestedTypes) = 0 => sections[i].interaction = None
    /\ Len(RequestedTypes) > 0 => Len(sections[i].interaction) = 1

\* A courseware of 3 sections was returned for a one-element list: the
\* second and third section lie past the end of the list.
C8_Witness ==
  /\ pc = "done"
  /\ Len(RequestedTypes) = 1
  /\ Len(sections) = 3

Requested(i) == Coalesce(RequestedTypes[((i - 1) % Len(RequestedTypes)) + 1], "single")

\* C9 (as amended): for a non-empty list the type of the interaction of the
\* section at index i is requestedTypes[i mod length] when that value is
\* truefalse or multi, and single for every other value (single, open, or an
\* absent value).
C9_Rotation ==
  \A i \in 1..Len(sections) :
    Len(RequestedTypes) > 0 =>
      /\ sections[i].interaction # None
      /\ sections[i].interaction[1].type
           = (IF Requested(i) \in {"truefalse", "multi"} THEN Requested(i) ELSE "single")

\* Two sections were built from a two-element list whose second element is open.
C9_Witness ==
  /\ Len(sections) >= 2
  /\ Len(RequestedTypes) = 2
  /\ RequestedTypes[1] = Some("multi")
  /\ RequestedTypes[2] = Some("open")

\* C9 as stated: the type is requestedTypes[i mod length], or single if that
\* value is absent.
C9_Original ==
  \A i \in 1..Len(sections) :
    Len(RequestedTypes) > 0 =>
      /\ sections[i].interaction # None
      /\ sections[i].interaction[1].type = Requested(i)

FlyingOf(r) == {c \in flying : c[1] = r}

\* C10: within one request at most one image-provider call is in flight, and
\* the call for section i+1 is issued only after the call for section i has
\* completed and a full delay of 1000 ms has then elapsed; this holds for
\* each of the requests running concurrently. (That the calls in flight
\* across all requests are not bounded by 1 is what the witness reaches.)
C10_PerRequestPacing ==
  \A r \in Requests :
    /\ Cardinality(FlyingOf(r)) <= 1
    /\ rpc[r] = "awaitImage" <=> FlyingOf(r) = {<<r, rindex[r]>>}
    /\ rpc[r] # "awaitImage" => FlyingOf(r) = {}
    /\ (rpc[r] = "awaitImage" /\ rindex[r] > 0) =>
         /\ doneAt[r] >= 0
         /\ issuedAt[r] >= doneAt[r] + 1000

\* Two requests each have a call in flight at the same time, one of them for
\* its second section.
C10_Witness ==
  /\ Cardinality(flying) = 2
  /\ \E r \in Requests : rpc[r] = "awaitImage" /\ rindex[r] = 1

SectionCount == IF outline = None \/ "sections" \notin DOMAIN outline[1] THEN 0
                ELSE Len(outline[1].sections)

\* C11: with a configured provider, generateCourseware on an outline of n
\* sections observes exactly n-1 delays (0 when n is 0 or 1): none before the
\* first image call and exactly one before each later call.
C11_Delays ==
  apiKey =>
    /\ pc = "awaitImage" => delays = index /\ imageCalls = index + 1
    /\ pc = "wait" => delays = index - 1 /\ imageCalls = index /\ index >= 1
    /\ pc = "done" =>
         /\ delays = (IF SectionCount = 0 THEN 0 ELSE SectionCount - 1)
         /\ imageCalls = SectionCount

\* A courseware of 3 sections was returned with a configured provider after
\* exactly 2 delays.
C11_Witness ==
  /\ apiKey
  /\ pc = "done"
  /\ SectionCount = 3
  /\ delays = 2

PlaceholderUrl(i) == "https://placehold.co/800x600?text=Slide+" \o ToString(i)

\* C12: image generation never raises a fault: without a credential, after a
\* provider error and after an answer without a payload the section's url is
\* the placeholder for slide index+1, after an answer with a payload it is
\* the data URI of that payload, and no other url occurs.
C12_ImageUrl ==
  /\ [](/\ ~fault
        /\ \A i \in 1..Len(sections) :
             /\ sections[i].image.url \in {PlaceholderUrl(i), "data:image/png;base64,QUJD"}
             /\ ~apiKey => sections[i].image.url = PlaceholderUrl(i))
  /\ [][\A out \in ImageOutcomes :
          ImageReturn(out) =>
            /\ pc' # "failed"
            /\ Len(sections') = index + 1
            /\ sections'[index + 1].image.url
                 = (IF out.kind = "payload" THEN "data:image/png;base64," \o out.data
                    ELSE PlaceholderUrl(index + 1))]_vars

\* A courseware was returned whose first section has the data URI and whose
\* second section has the placeholder.
C12_Witness ==
  /\ pc = "done"
  /\ Len(sections) >= 2
  /\ sections[1].image.url = "data:image/png;base64,QUJD"
  /\ sections[2].image.url = PlaceholderUrl(2)

\* C13: the courseware returned has exactly one section per outline section,
\* in the same order, section i with the id and the title of outline section i
\* and with the image produced for section i, whatever the mix of images and
\* placeholders; metadata copies topic and audience from the brief, and
\* objectives is the brief's or the empty sequence when it has none.
C13_Aligned ==
  /\ [](pc = "done" =>
         LET cw == artifact[1].courseware
         IN /\ Len(cw.sections) = Len(outline[1].sections)
            /\ cw.sections = sections
            /\ \A i \in 1..Len(cw.sections) :
                 /\ cw.sections[i].id = outline[1].sections[i].id
                 /\ cw.sections[i].title = outline[1].sections[i].title
            /\ cw.metadata.topic = request.topic
            /\ cw.metadata.audience = request.audience
            /\ cw.metadata.objectives
                 = (IF request.objectives = None THEN <<>> ELSE request.objectives[1]))
  /\ [][\A out \in ImageOutcomes :
          ImageReturn(out) =>
            /\ Len(sections') = Len(sections) + 1
            /\ SubSeq(sections', 1, Len(sections)) = sections
            /\ sections'[Len(sections')].image.url = generateImage(out, Len(sections))]_vars

\* A courseware of 3 sections was returned with an image for the first and
\* the third section and a placeholder for the second, for a brief that has
\* objectives.
C13_Witness ==
  /\ pc = "done"
  /\ Len(sections) = 3
  /\ sections[1].image.url = "data:image/png;base64,QUJD"
  /\ sections[2].image.url = PlaceholderUrl(2)
  /\ sections[3].image.url = "data:image/png;base64,QUJD"
  /\ request.objectives # None

\* C14: for every body that has an outline and a request, generateCourseware
\* returns an artifact instead of failing.
C14_AlwaysReturns ==
  /\ ~fault
  /\ pc # "failed"

\* The five entities escapeHtml emits.
Entities == {"&amp;", "&lt;", "&gt;", "&quot;", "&#39;"}

\* A text without a raw < > " or ', in which every & begins an entity.
NoRaw(s) ==
  \A i \in 1..Len(s) :
    /\ SubSeq(s, i, i) \notin {"<", ">", "\"", "'"}
    /\ SubSeq(s, i, i) = "&" => \E e \in Entities : HasAt(s, i, e)

Slides == IF doc = None THEN <<>> ELSE doc[1].slides

\* C18: a section title containing <script> is in the document only as
\* escaped text, at every place the title is interpolated: the image's alt
\* text and the interaction's question hold no raw <, and the heading the
\* compiler made of the title in the section body is not in the slide.
C18_TitleEscaped ==
  \A i \in 1..Len(Slides) :
    Contains(page[1].sections[i].title, "<script>") =>
      /\ ~Contains(Slides[i].alt, "<")
      /\ Slides[i].interaction # None => ~Contains(Slides[i].interaction[1].question, "<")
      /\ ~Contains(Slides[i].body, "<h2>")

\* C19: the courseware title, the option labels and ids, the question, the
\* explanation and the alt text are in the document without a raw < > " or '
\* and with & only at the start of an entity, and a summary that holds markup
\* is not in the slide's body as it was given.
C19_AllEscaped ==
  doc # None =>
    /\ NoRaw(doc[1].title)
    /\ \A i \in 1..Len(Slides) :
         /\ NoRaw(Slides[i].alt)
         /\ Slides[i].interaction # None =>
              /\ NoRaw(Slides[i].interaction[1].question)
              /\ NoRaw(Slides[i].interaction[1].explanation)
              /\ \A j \in 1..Len(Slides[i].interaction[1].options) :
                   /\ NoRaw(Slides[i].interaction[1].options[j].label)
                   /\ NoRaw(Slides[i].interaction[1].options[j].value)
         /\ \A su \in RenderSummaries :
              (Contains(su, "<") /\ Contains(page[1].sections[i].body, "<p>" \o su \o "</p>"))
                => ~Contains(Slides[i].body, su)

\* C20: every option's input is a checkbox when the interaction's type is
\* multi and a radio otherwise, its data-correct is true exactly when the
\* option's id is one of the interaction's answers, and so the values of the
\* inputs flagged correct are the answers.
C20_InputFlags ==
  \A i \in 1..Len(Slides) :
    /\ Slides[i].interaction = None <=> page[1].sections[i].interaction = None
    /\ Slides[i].interaction # None =>
         LET b == page[1].sections[i].interaction[1]
             r == Slides[i].interaction[1]
         IN /\ Len(r.options) = Len(b.options)
            /\ \A j \in 1..Len(r.options) :
                 /\ r.options[j].inputType = (IF b.type = "multi" THEN "checkbox" ELSE "radio")
                 /\ r.options[j].correct \in {"true", "false"}
                 /\ r.options[j].correct = "true" <=> b.options[j].id \in AnswerIds(b)
            /\ {r.options[j].value : j \in {k \in 1..Len(r.options) : r.options[k].correct = "true"}}
                 = {ToString(a) : a \in AnswerIds(b)}

\* A document was rendered with a multi interaction, which has two answers,
\* and its inputs are checkboxes.
C20_Witness ==
  /\ doc # None
  /\ \E i \in 1..Len(Slides) :
       /\ Slides[i].interaction # None
       /\ page[1].sections[i].interaction[1].type = "multi"
       /\ Slides[i].interaction[1].options[1].inputType = "checkbox"
       /\ Slides[i].interaction[1].options[2].correct = "true"

\* The interactions of the document that are in the correct state.
CorrectNow ==
  {k \in 1..Len(dom.quizzes) : dom.quizzes[k].state = "interaction--correct"}

\* C15: correctCount is the number of interactions in the correct state and
\* lies in 0..total; a submit changes it by +1 when the interaction goes from
\* not correct to correct, by -1 when it goes from correct to not correct and
\* not otherwise (a correct answer submitted again adds nothing); a reset
\* changes it by -1 when the interaction was correct and not otherwise.
C15_Count ==
  /\ [](/\ correctCount = Cardinality(CorrectNow)
        /\ correctCount \in 0..Len(dom.quizzes))
  /\ [][\A k \in 1..Len(dom.quizzes) :
          /\ Submit(k) =>
               correctCount' - correctCount =
                 (IF k \notin CorrectNow /\ dom'.quizzes[k].state = "interaction--correct"
                    THEN 1
                  ELSE IF k \in CorrectNow /\ dom'.quizzes[k].state # "interaction--correct"
                    THEN -1
                  ELSE 0)
          /\ Reset(k) =>
               correctCount' - correctCount = (IF k \in CorrectNow THEN -1 ELSE 0)]_vars

\* Two interactions, one in the correct state and one in the incorrect state,
\* and a count of 1.
C15_Witness ==
  /\ Len(dom.quizzes) = 2
  /\ correctCount = 1
  /\ \E k \in 1..2 : dom.quizzes[k].state = "interaction--incorrect"

\* The ids of the checked inputs and of the inputs flagged correct.
SelectedIds(k) == {Inputs(k)[j].value : j \in dom.quizzes[k].checked}

FlaggedIds(k) ==
  {Inputs(k)[j].value : j \in {i \in 1..Len(Inputs(k)) : Inputs(k)[i].correct = "true"}}

\* C16: a submit puts the interaction in the correct state exactly when the
\* set of the checked inputs' ids is the set of the flagged inputs' ids, and
\* in the incorrect state otherwise; with no input checked it is incorrect.
C16_ExactSet ==
  [][\A k \in 1..Len(dom.quizzes) :
       Submit(k) =>
         /\ dom'.quizzes[k].state \in {"interaction--correct", "interaction--incorrect"}
         /\ dom'.quizzes[k].state = "interaction--correct" <=> SelectedIds(k) = FlaggedIds(k)
         /\ dom.quizzes[k].checked = {} => dom'.quizzes[k].state = "interaction--incorrect"]_vars

\* A multi interaction judged incorrect with one of its two correct options
\* checked and no other.
C16_Witness ==
  /\ Loaded
  /\ \E k \in 1..Len(dom.quizzes) :
       /\ dom.quizzes[k].state = "interaction--incorrect"
       /\ dom.quizzes[k].checked # {}
       /\ SelectedIds(k) \subseteq FlaggedIds(k)
       /\ SelectedIds(k) # FlaggedIds(k)
       /\ \A j \in 1..Len(Inputs(k)) : dom.quizzes[k].marks[j] # "option--wrong"

\* C17: in a loaded document, for every number of slides from 0 on,
\* currentIndex is in 0..slides-1, the slide at currentIndex is the one active
\* slide, prev is disabled exactly on the first slide, next exactly on the
\* last, and the progress text is currentIndex+1 over the number of slides.
C17_Navigation ==
  Loaded =>
    /\ currentIndex \in 0..(Len(dom.slides) - 1)
    /\ Cardinality({i \in 1..Len(dom.slides) : dom.slides[i]}) = 1
    /\ \A i \in 1..Len(dom.slides) : dom.slides[i] <=> (i - 1 = currentIndex)
    /\ dom.prevDisabled <=> currentIndex = 0
    /\ dom.nextDisabled <=> currentIndex = Len(dom.slides) - 1
    /\ dom.progress =
         "Scene " \o ToString(currentIndex + 1) \o " / " \o ToString(Len(dom.slides))

C22_HintValues ==
  outline # None =>
    \A i \in 1..Len(outline[1].sections) :
      outline[1].sections[i].interactionHint
        \in {None, Some("single"), Some("multi"), Some("truefalse")}

\* The requests that have written the imageModel field.
Writers == {r \in Requests : "write" \in access[r]}

\* C23 as stated: a field one request has written is neither read nor written
\* by another request.
C23_NoSharing ==
  \A r1, r2 \in Requests : (r1 # r2 /\ r1 \in Writers) => access[r2] = {}

\* C23: the imageModel field is shared by the requests but written once: one
\* request at most creates the handle, the field never changes after that,
\* the other requests only read it, and every request returns with one turn
\* made for each section of its outline, whatever the interleaving.
C23_WrittenOnce ==
  /\ [](/\ Cardinality(Writers) <= 1
        /\ imageModel = None <=> \A r \in Requests : access[r] = {}
        /\ \A r \in Requests : rpc[r] = "done" => rindex[r] = rn[r])
  /\ [][imageModel # None => imageModel' = imageModel]_vars

\* Both requests have returned; one created the handle and the other read it.
C23_Witness ==
  /\ \A r \in Requests : rpc[r] = "done" /\ rn[r] > 0
  /\ \E r1, r2 \in Requests :
       /\ r1 # r2
       /\ r1 \in Writers
       /\ access[r2] = {"read"}

\* C24: in a loaded document the scoreboard reads count / total for the
\* current correctCount, after every submit and reset as in every other
\* state; a document without interactions shows the fixed text, as rendered
\* and once loaded.
C24_ScoreFresh ==
  /\ Loaded =>
       dom.score =
         (IF Len(dom.quizzes) = 0 THEN "No interactions yet"
          ELSE ToString(correctCount) \o " / " \o ToString(Len(dom.quizzes)))
  /\ (doc # None /\ \A i \in 1..Len(Slides) : Slides[i].interaction = None) =>
       doc[1].score = "No interactions yet"

\* Two interactions, both answered correctly: the scoreboard reads 2 / 2.
C24_Witness ==
  /\ Loaded
  /\ Len(dom.quizzes) = 2
  /\ correctCount = 2
  /\ dom.score = "2 / 2"

\* C25: a submit leaves every input flagged correct marked correct, every
\* checked input that is not flagged marked wrong and no other input marked,
\* whatever the marks were before, with the interaction in one of the states
\* correct and incorrect and the selection as it was; a reset leaves no input
\* checked, no mark, no feedback text and neither state.
C25_Marks ==
  [][\A k \in 1..Len(dom.quizzes) :
       /\ Submit(k) =>
            /\ \A j \in 1..Len(Inputs(k)) :
                 dom'.quizzes[k].marks[j] =
                   (IF Inputs(k)[j].correct = "true" THEN "option--correct"
                    ELSE IF j \in dom.quizzes[k].checked THEN "option--wrong"
                    ELSE "")
            /\ dom'.quizzes[k].state \in {"interaction--correct", "interaction--incorrect"}
            /\ dom'.quizzes[k].feedback # ""
            /\ dom'.quizzes[k].checked = dom.quizzes[k].checked
       /\ Reset(k) =>
            /\ dom'.quizzes[k].checked = {}
            /\ \A j \in 1..Len(Inputs(k)) : dom'.quizzes[k].marks[j] = ""
            /\ dom'.quizzes[k].feedback = ""
            /\ dom'.quizzes[k].state = ""]_vars

\* An interaction judged incorrect shows a correct mark on an input that is
\* not checked, a wrong mark on the checked one and no mark on a third.
C25_Witness ==
  /\ Loaded
  /\ \E k \in 1..Len(dom.quizzes) :
       /\ dom.quizzes[k].state = "interaction--incorrect"
       /\ \E j1, j2, j3 \in 1..Len(Inputs(k)) :
            /\ dom.quizzes[k].marks[j1] = "option--correct" /\ j1 \notin dom.quizzes[k].checked
            /\ dom.quizzes[k].marks[j2] = "option--wrong" /\ j2 \in dom.quizzes[k].checked
            /\ dom.quizzes[k].marks[j3] = ""

\* The opening fences of a text that are followed by a fence mark, and the
\* contents of the first fenced block, or the whole text without one.
ClosedFences(t) ==
  {i \in 1..Len(t) :
     t[i].k = "fence-json" /\ \E j \in (i + 1)..Len(t) : t[j].k \in {"fence-json", "fence"}}

Window(t) ==
  IF ClosedFences(t) = {} THEN t
  ELSE LET i == CHOOSE m \in ClosedFences(t) : \A n \in ClosedFences(t) : m <= n
           j == CHOOSE m \in (i + 1)..Len(t) :
                  /\ t[m].k \in {"fence-json", "fence"}
                  /\ \A n \in (i + 1)..(m - 1) : t[n].k \notin {"fence-json", "fence"}
       IN SubSeq(t, i + 1, j - 1)

Opens(w) == {i \in 1..Len(w) : w[i].k = "{"}
Closes(w) == {i \in 1..Len(w) : w[i].k = "}"}

\* C26: extractJson searches the contents of the first fenced json block, or
\* the whole text without one; with no { or no } there the result is none;
\* otherwise the span from the first { to the last } is parsed as one object:
\* the result is the object when the span is a { and a } around nothing or
\* around one object body, and none when it is anything else or when the last
\* } comes before the first {. No fault is raised.
C26_Extract ==
  pc \in {"parsed", "continue", "accepted"} =>
    LET w == Window(rawText)
    IN /\ ~fault
       /\ (Opens(w) = {} \/ Closes(w) = {}) => parsed = None
       /\ (Opens(w) # {} /\ Closes(w) # {}) =>
            LET a == CHOOSE i \in Opens(w) : \A n \in Opens(w) : i <= n
                b == CHOOSE i \in Closes(w) : \A n \in Closes(w) : n <= i
                inner == SelectSeq(SubSeq(w, a + 1, b - 1), NotWS)
            IN parsed =
                 (IF b < a THEN None
                  ELSE IF inner = <<>> THEN Some(EmptyObject)
                  ELSE IF Len(inner) = 1 /\ inner[1].k = "body" THEN Some(inner[1])
                  ELSE None)

\* An object was extracted from a fenced block of a text that has a brace
\* before the fence and a brace after it.
C26_Witness ==
  /\ pc = "parsed"
  /\ parsed # None
  /\ ClosedFences(rawText) # {}
  /\ rawText[1].k = "{"
  /\ rawText[Len(rawText)].k = "}"

\* The sections array of the provider's object, and the ids of an outline.
Items == parsed[1].sections.a

OutlineIds(o) == {o.id} \cup {o.sections[i].id : i \in 1..Len(o.sections)}

\* C27: an accepted outline has as many sections as the provider's array, in
\* its order; the ids of the outline and of its sections are drawn anew and
\* differ from one another; section i has the provider's title, or the
\* default for position i when that is missing or empty, and the provider's
\* summary, or the placeholder when that is missing or empty, so neither is
\* empty.
C27_Accepted ==
  pc = "accepted" =>
    LET o == outline[1]
    IN /\ Len(o.sections) = Len(Items)
       /\ Cardinality(OutlineIds(o)) = 1 + Len(Items)
       /\ OutlineIds(o) = 1..nextId
       /\ \A i \in 1..Len(Items) :
            /\ o.sections[i].title # ""
            /\ o.sections[i].summary # ""
            /\ o.sections[i].title =
                 (IF Items[i].title \in {None, Some("")}
                    THEN "Section " \o ToString(i) ELSE Items[i].title[1])
            /\ o.sections[i].summary =
                 (IF Items[i].summary \in {None, Some("")}
                    THEN "Please add a summary for this section." ELSE Items[i].summary[1])

\* An outline was accepted whose first section came with an id of its own
\* and whose second section came without title and summary.
C27_Witness ==
  /\ pc = "accepted"
  /\ Len(Items) = 2
  /\ Items[1] = IdItem
  /\ Items[2].title = None
  /\ outline[1].sections[1].id # 1
  /\ outline[1].sections[2].title = "Section 2"

\* The interactionTypes of the brief, empty when the brief has none.
BriefTypes == IF request.interactionTypes = None THEN <<>> ELSE request.interactionTypes[1]

\* C28: in an accepted outline a section whose provider item has an
\* interactionHint keeps it, and a section whose item has none gets element
\* (index mod length) of the brief's interactionTypes, or no hint when the
\* brief has no types.
C28_Hints ==
  pc = "accepted" =>
    \A i \in 1..Len(Items) :
      outline[1].sections[i].interactionHint =
        (IF Items[i].interactionHint # None THEN Items[i].interactionHint
         ELSE IF Len(BriefTypes) = 0 THEN None
         ELSE BriefTypes[((i - 1) % Len(BriefTypes)) + 1])

\* The first section keeps the provider's hint, which is not the brief's
\* first type, and the second gets the brief's second type.
C28_Witness ==
  /\ pc = "accepted"
  /\ Len(Items) = 2
  /\ Items[1].interactionHint = Some("multi")
  /\ Items[2].interactionHint = None
  /\ BriefTypes = <<Some("single"), Some("open")>>
  /\ outline[1].sections[1].interactionHint = Some("multi")
  /\ outline[1].sections[2].interactionHint = Some("open")

\* No match of a pattern of cleanSectionBody is left in a text.
NoMatch(b, pat) == \A i \in 1..Len(b) : PatternMatchEnd(b, b, i, pat) = 0

\* C29: the body of a rendered slide has no paragraph and no heading whose
\* text is the section's title, none that starts with the audience label,
\* and no empty paragraph.
C29_Clean ==
  \A i \in 1..Len(Slides) :
    LET b == Slides[i].body
        lt == Lower(page[1].sections[i].title)
    IN /\ lt # "" => NoMatch(b, Pattern("p", "title", lt))
       /\ lt # "" => NoMatch(b, Pattern("h", "title", lt))
       /\ NoMatch(b, Pattern("p", "audience", ""))
       /\ NoMatch(b, Pattern("h", "audience", ""))
       /\ NoMatch(b, Pattern("p", "empty", ""))

\* C30: no step of generateCourseware changes the outline or the brief it
\* was given, and no step of generateOutline changes the brief.
C30_InputsKept ==
  [][/\ pc \in {"outlineDone", "wait", "awaitImage"} =>
          (outline' = outline /\ request' = request)
     /\ pc \in {"start", "attempt"} => request' = request]_vars

\* generateCourseware has returned after two image-provider calls, and the
\* outline still has the sections it was called with.
C30_Witness ==
  /\ pc = "done"
  /\ artifact # None
  /\ imageCalls >= 2
  /\ Len(outline[1].sections) = Len(artifact[1].courseware.sections)
  /\ outline[1].sections[1].assetsHint # "done"
  /\ \A i \in 1..Len(outline[1].sections) :
       outline[1].sections[i].id = artifact[1].courseware.sections[i].id

\* A field is present when the body has it with a value other than null.
Present(v) == v.t \notin {"undefined", "null"}

\* The bodies the outline route is meant to let through.
WellFormedBody(b) ==
  /\ b # Undefined
  /\ Present(b.topic) /\ b.topic # JStr("")
  /\ Present(b.audience) /\ b.audience # JStr("")
  /\ Present(b.objectives) => IsArray(b.objectives)
  /\ Present(b.interactionTypes) => IsArray(b.interactionTypes)

\* C31: the outline route hands to generateOutline only bodies whose topic and
\* audience are present and non-empty and whose objectives and
\* interactionTypes, when present, are arrays; every other body is answered
\* 400 with no outline built and no text-provider call made.
C31_OnlyWellFormed ==
  body # None =>
    IF WellFormedBody(body[1])
      THEN pc # "rejected"
      ELSE pc = "rejected" /\ textCalls = 0 /\ outline = None

\* C32: when every provider call returns or fails and every timer fires,
\* generateOutline returns after at most 3 text-provider calls, and
\* generateCourseware on its outline of n sections returns after exactly n
\* section steps, at most n image-provider calls and n-1 delays.
C32_Terminates ==
  /\ <>(pc = "outlineDone" /\ outline # None)
  /\ <>(pc = "done" /\ artifact # None)
  /\ [](textCalls <= 3)
  /\ [](pc = "done" =>
          /\ Len(sections) = SectionCount
          /\ imageCalls <= SectionCount
          /\ delays = SectionCount - 1)

\* Three text-provider calls were made, and a courseware of three sections
\* was returned after three image-provider calls and two delays.
C32_Witness ==
  /\ pc = "done"
  /\ textCalls = 3
  /\ Len(sections) = 3
  /\ imageCalls = 3
  /\ delays = 2

\* C33: image generation is not retried. With a credential every section has
\* had exactly one image-provider call when it is pushed, and the completion
\* of a call that failed or carried no payload pushes the section with the
\* placeholder in the same step, without another call.
C33_NoRetry ==
  /\ [](apiKey =>
          /\ imageCalls = Len(sections) + (IF pc = "awaitImage" THEN 1 ELSE 0)
          /\ imageInFlight = (IF pc = "awaitImage" THEN 1 ELSE 0)
          /\ pc = "done" => imageCalls = SectionCount)
  /\ [][\A out \in ImageOutcomes :
          ImageReturn(out) /\ out.kind # "payload" =>
            /\ imageCalls' = imageCalls
            /\ pc' # "awaitImage"
            /\ Len(sections') = Len(sections) + 1
            /\ sections'[index + 1].image.url = PlaceholderUrl(index + 1)]_vars

\* With a credential, a courseware of three sections was returned after three
\* image-provider calls, the second of which gave no image.
C33_Witness ==
  /\ apiKey
  /\ pc = "done"
  /\ imageCalls = 3
  /\ Len(sections) = 3
  /\ sections[2].image.url = PlaceholderUrl(2)
  /\ sections[1].image.url # PlaceholderUrl(1)

\* C34: the delay between sections does not depend on the provider. With or
\* without a credential the turn for section index starts after index delays
\* and n sections are returned after n-1 delays; without a credential no
\* image-provider call is issued; and the completion of an image call, with
\* or without an image, leaves the number of delays as it is.
C34_DelaysAnyway ==
  /\ [](/\ pc = "wait" => delays = index - 1
        /\ pc = "awaitImage" => delays = index
        /\ pc = "done" => delays = SectionCount - 1
        /\ ~apiKey => imageCalls = 0 /\ pc # "awaitImage")
  /\ [][\A out \in ImageOutcomes : ImageReturn(out) => delays' = delays]_vars

\* Without a credential a courseware of three sections was returned after
\* two delays and no image-provider call.
C34_Witness ==
  /\ ~apiKey
  /\ pc = "done"
  /\ SectionCount = 3
  /\ delays = 2
  /\ imageCalls = 0

\* C35: in the courseware built from the outline generateOutline returned
\* and the same brief, section i has an interaction exactly when section i
\* of the outline has an interactionHint, and the type of the interaction is
\* that hint.
C35_TypeIsHint ==
  pc = "done" =>
    \A i \in 1..Len(sections) :
      LET hint == outline[1].sections[i].interactionHint
          interaction == sections[i].interaction
      IN /\ interaction # None <=> hint # None
         /\ (interaction # None /\ hint # None) => interaction[1].type = hint[1]

\* C36: the textModel handle and the imageModel handle of the service are
\* each created at most once and never replaced: once a field holds a handle
\* it holds that handle for ever, whatever the interleaving of the outline
\* and courseware requests at their provider calls and timers; and a handle
\* is there whenever a call made through it is in flight.
C36_HandlesMadeOnce ==
  /\ [][/\ textModel # None => textModel' = textModel
        /\ imageModel # None => imageModel' = imageModel]_vars
  /\ []((\E o \in OutlineRequests : tpc[o] = "awaitText") => textModel # None)
  /\ [](flying # {} => imageModel # None)

\* Both handles were created by the first request of each kind, and the
\* second request of each kind has a call in flight through the same handle
\* while the first has gone on to a later call.
C36_Witness ==
  /\ textModel = Some(<<"o1", 0>>)
  /\ tpc["o1"] = "awaitText" /\ tattempt["o1"] = 1
  /\ tpc["o2"] = "awaitText"
  /\ imageModel = Some(<<"r1", 0>>)
  /\ <<"r1", 1>> \in flying
  /\ <<"r2", 0>> \in flying

\* C37: in the wizard, whenever the active step is courseware the artifact
\* is not null, and whenever the active step is outline and was set by a
\* step button the outline is not null, under every interleaving of the
\* user's clicks with the completions and failures of the requests in flight.
C37_StepHasItsData ==
  /\ app.activeStep = "courseware" => app.coursewareArtifact # None
  /\ (app.activeStep = "outline" /\ trail.via = "stepButton") => app.outline # None

\* The outline step was reached through its step button while a courseware
\* request is in flight and an artifact of an earlier request is held.
C37_Witness ==
  /\ app.activeStep = "outline"
  /\ trail.via = "stepButton"
  /\ app.coursewareArtifact # None
  /\ app.loadingCourseware
  /\ \E p \in pending : p.kind = "courseware"

\* C38: in the wizard an artifact that is not null was generated from the
\* outline the state holds: no interleaving of a courseware request in flight
\* with a new outline request or a reset leaves an artifact built from
\* another outline, and a new outline generation drops the artifact.
C38_ArtifactOfItsOutline ==
  /\ [](app.coursewareArtifact # None =>
          /\ app.outline # None
          /\ app.coursewareArtifact[1].outline = app.outline[1])
  /\ [][HandleGenerateOutline => app'.coursewareArtifact = None]_vars

\* C39: in the wizard, from a reset until the user starts the next
\* generation the outline and the artifact are null and the active step is
\* request, also when a request that was in flight at the reset completes.
C39_ResetHolds ==
  trail.sinceReset =>
    /\ app.outline = None
    /\ app.coursewareArtifact = None
    /\ app.activeStep = "request"

====
